---- MODULE Spec2Model ----
(***************************************************************************)
(* The artifact cache manager of data-discovery (ProjectManager) and the   *)
(* tabular discovery log it shares with ProjectDiscoveryManager.           *)
(*                                                                         *)
(* Time is counted in abstract units; a document (manifest.json or         *)
(* catalog.json) is identified by the version of the remote file it was    *)
(* parsed from.  File writes on the cache directory succeed except under   *)
(* WriteFaultSpec; what an interrupted earlier run may have left behind is *)
(* part of Init.                                                           *)
(* Reads and writes of the discovery log succeed except under FaultySpec,  *)
(* where the set faults names the operations that raise.  The discovery    *)
(* services that answer from the cached artifacts are modelled in the      *)
(* section "query layer".                                                  *)
(***************************************************************************)
EXTENDS Integers, Sequences, FiniteSets, TLC

\* ---------------------------------------------------------------- bounds
MaxTime == 1                 \* the clock runs from 0 to MaxTime
MaxLen == 2                  \* longest resource_ids list a caller passes
MaxCalls == 2                \* calls made in one behaviour
MaxRuns == 2                 \* discovery runs made in one behaviour
MaxWaits == 1                \* rate-limit waits of one listing
MaxIdLen == 4                \* characters of a unique id after its prefix
MaxNodes == 2                \* nodes of one manifest
MaxLimit == 2                \* largest limit a caller passes
MaxListed == 2               \* ids the resource registry lists

\* ------------------------------------------------------ program constants
\* Both are read from the environment; the model runs with a TTL of one
\* time unit and a limit of one resource per request.
CACHE_TTL_SECONDS == 1
MAX_PROJECTS == 1
MAX_FILE_SIZE == 52428800

\* ------------------------------------------------------------ value sets
Repos == {"a-models", "b-models", "c-models"}
Docs == {"v1", "v2"}
Absent == "absent"           \* the file does not exist
Corrupt == "corrupt"         \* the file exists but json.load raises on it
BadJson == "badjson"         \* a response body json.loads raises on
NoPair == <<>>               \* Python None where a (manifest, catalog) is expected
NoTime == -1                 \* the empty string in a CSV timestamp column
NoHeader == -1               \* response without a content-length header
NoneEntry == "<None>"        \* a Python None inside a resource_ids list
NoError == "None"            \* Python None as an error value

NoStatus == 0                \* no response has been received
NoProbe == [pc |-> "idle", requests |-> 0, waits |-> 0, last |-> NoStatus,
            raised |-> FALSE]
NoQuery == [pc |-> "idle"]
NoParse == [pc |-> "idle", unique_id |-> <<>>, project_id |-> <<>>,
            raised |-> FALSE]

Callers == {1, 2}
Sequential == {1}

VARIABLES
    csv,            \* project_discovery.csv: the sequence of its rows
    manifestFile,   \* <cache>/<id>/manifest.json, per resource id
    catalogFile,    \* <cache>/<id>/catalog.json, per resource id
    metaFile,       \* <cache>/<id>/cache_meta.json, per resource id
    now,            \* datetime.now(timezone.utc)
    call,           \* per caller: the coroutine of its current call
    last,           \* per resource id: how the cache manager last processed it
    started,        \* number of calls made so far
    max_projects,   \* self.config.MAX_PROJECTS of this ProjectManager
    org,            \* the organisation's repositories, newest first
    faults,         \* which accesses to project_discovery.csv raise
    disc,           \* the coroutine of the current discovery run
    parse,          \* the current unique id resolution
    probe,          \* the current call of _check_docs_branch
    query           \* the query layer: the artifacts it is given, the
                    \* request made and the response returned

vars == <<csv, manifestFile, catalogFile, metaFile, now, call, last, started,
          max_projects, org, faults, disc, parse, probe, query>>

\* What the cache manager's calls leave alone, and what a discovery run does.
beside_calls == <<max_projects, org, faults, disc, parse, probe, query>>
beside_discovery ==
    <<manifestFile, catalogFile, metaFile, call, last, max_projects, faults,
      parse, query>>

\* The cache directory and the discovery log as one value, for the
\* operators that read and write them.
Disk == [manifest |-> manifestFile, catalog |-> catalogFile,
         meta |-> metaFile, csv |-> csv]

Range(s) == {s[j] : j \in 1..Len(s)}

\* ------------------------------------------------------- discovery log
\* The columns derived from a repository name.  A name is an atom here, so
\* the part before "-models" is looked up instead of being cut out.
OtherRepo == "sdk"           \* a repository that is not named *-models
EndsWithModels(resource_id) == resource_id \in Repos
BaseName(resource_id) ==
    CASE resource_id = "a-models" -> "a"
      [] resource_id = "b-models" -> "b"
      [] resource_id = "c-models" -> "c"
      [] OTHER -> resource_id
TitleCase(base_name) ==
    CASE base_name = "a" -> "A"
      [] base_name = "b" -> "B"
      [] base_name = "c" -> "C"
      [] OTHER -> base_name

generate_name_from_id(resource_id) ==
    IF EndsWithModels(resource_id)
    THEN TitleCase(BaseName(resource_id)) \o " Models"
    ELSE TitleCase(resource_id)

extract_blockchain_from_id(resource_id) ==
    IF EndsWithModels(resource_id) THEN BaseName(resource_id) ELSE resource_id

categorize_blockchain(blockchain) ==
    IF blockchain \in {"bitcoin", "avalanche", "near", "flow", "stellar",
                       "ton", "aleo", "aptos", "movement"} THEN "l1"
    ELSE IF blockchain \in {"ethereum", "arbitrum", "optimism", "polygon",
                            "base", "bsc", "gnosis", "mantle", "blast"} THEN "evm"
    ELSE IF blockchain \in {"cosmos", "osmosis", "terra", "thorchain",
                            "axelar", "maya"} THEN "ibc"
    ELSE IF blockchain \in {"solana", "eclipse"} THEN "svm"
    ELSE IF blockchain \in {"crosschain", "external"} THEN "multi-chain"
    ELSE IF blockchain = "kairos" THEN "internal"
    ELSE "unknown"

\* The aliases column is the "|"-join of a set; it is kept as the set.
generate_aliases(resource_id) ==
    IF EndsWithModels(resource_id)
    THEN {resource_id, BaseName(resource_id),
          BaseName(resource_id) \o "_models", BaseName(resource_id) \o "-models"}
    ELSE {resource_id}

\* One discovered project as discover_flipside_projects builds it.
project_data(repo_name, has_docs_branch, t) ==
    [resource_id |-> repo_name,
     name |-> generate_name_from_id(repo_name),
     blockchain |-> extract_blockchain_from_id(repo_name),
     category |-> categorize_blockchain(extract_blockchain_from_id(repo_name)),
     aliases |-> generate_aliases(repo_name),
     location |-> "FlipsideCrypto/" \o repo_name,
     cached_at |-> NoTime, status |-> "", error |-> "",
     discovered_at |-> t, has_docs_branch |-> has_docs_branch]

\* A row an earlier discovery run (at time 0) wrote and the cache manager
\* has updated since.
Row(id, docs, cached_at, status, error) ==
    [project_data(id, docs, 0) EXCEPT
        !.cached_at = cached_at, !.status = status, !.error = error]

\* _read_csv_data and _write_csv_data: a read that raises yields no rows, a
\* write of no rows or one that raises leaves the file as it is.
read_csv_data(d) == IF "read" \in faults THEN <<>> ELSE d.csv
write_csv_data(d, data) ==
    IF data = <<>> THEN d
    ELSE IF "write" \in faults THEN d
    ELSE [d EXCEPT !.csv = data]

RECURSIVE SelectRows(_, _)
SelectRows(rows, require_docs_branch) ==
    IF rows = <<>> THEN <<>>
    ELSE IF require_docs_branch /\ Head(rows).has_docs_branch # "True"
         THEN SelectRows(Tail(rows), require_docs_branch)
         ELSE <<Head(rows)>> \o SelectRows(Tail(rows), require_docs_branch)

get_available_projects(d, require_docs_branch) ==
    SelectRows(read_csv_data(d), require_docs_branch)

list_project_ids(d) ==
    LET available == get_available_projects(d, TRUE)
    IN [j \in 1..Len(available) |-> available[j].resource_id]

\* TRUE when get_project_by_id returns, FALSE when it raises ValueError.
get_project_by_id(d, project_id) ==
    \E j \in 1..Len(get_available_projects(d, TRUE)) :
        get_available_projects(d, TRUE)[j].resource_id = project_id

\* Variant: the updated row loses its docs-branch flag.
update_cache_status_clearing_flag(d, resource_id, status, error, t) ==
    LET existing_data == read_csv_data(d)
        hits == {j \in 1..Len(existing_data) :
                    existing_data[j].resource_id = resource_id}
        first == CHOOSE j \in hits : \A k \in hits : j <= k
        err == IF error = NoError THEN "" ELSE error
    IN IF hits # {}
       THEN write_csv_data(d, [existing_data EXCEPT ![first].cached_at = t,
                                                    ![first].status = status,
                                                    ![first].error = err,
                                                    ![first].has_docs_branch = ""])
       ELSE d

\* The first row with this resource_id is updated; a missing row is appended.
update_cache_status(d, resource_id, status, error, t) ==
    LET existing_data == read_csv_data(d)
        hits == {j \in 1..Len(existing_data) :
                    existing_data[j].resource_id = resource_id}
        first == CHOOSE j \in hits : \A k \in hits : j <= k
        err == IF error = NoError THEN "" ELSE error
        new_row == [resource_id |-> resource_id,
                    name |-> generate_name_from_id(resource_id),
                    blockchain |-> extract_blockchain_from_id(resource_id),
                    category |-> "", aliases |-> {},
                    location |-> "FlipsideCrypto/" \o resource_id,
                    cached_at |-> t, status |-> status, error |-> err,
                    discovered_at |-> NoTime, has_docs_branch |-> ""]
    IN IF hits # {}
       THEN write_csv_data(d, [existing_data EXCEPT ![first].cached_at = t,
                                                    ![first].status = status,
                                                    ![first].error = err])
       ELSE write_csv_data(d, Append(existing_data, new_row))

\* ------------------------------------------------------- cache directory
NoMeta == [state |-> Absent, cached_at |-> NoTime, status |-> "", error |-> ""]
BadMeta == [state |-> Corrupt, cached_at |-> NoTime, status |-> "", error |-> ""]
Meta(t, status, error) ==
    [state |-> "ok", cached_at |-> t, status |-> status, error |-> error]

\* Variants with a plausible slip, for the checks of the claims.
is_cache_valid_inclusive(d, project_id, t) ==
    LET meta == d.meta[project_id]
    IN IF meta.state = Absent THEN FALSE
       ELSE IF meta.state = Corrupt THEN FALSE
       ELSE IF meta.status = "error" THEN FALSE
       ELSE t - meta.cached_at <= CACHE_TTL_SECONDS

is_cache_valid_reversed(d, project_id, t) ==
    LET meta == d.meta[project_id]
    IN IF meta.state = Absent THEN FALSE
       ELSE IF meta.state = Corrupt THEN FALSE
       ELSE IF meta.status = "error" THEN FALSE
       ELSE t - meta.cached_at > CACHE_TTL_SECONDS

\* Variant: the status the sidecar records is not looked at.
is_cache_valid_ignoring_status(d, project_id, t) ==
    LET meta == d.meta[project_id]
    IN IF meta.state = Absent THEN FALSE
       ELSE IF meta.state = Corrupt THEN FALSE
       ELSE t - meta.cached_at < CACHE_TTL_SECONDS

is_cache_valid(d, project_id, t) ==
    LET meta == d.meta[project_id]
    IN IF meta.state = Absent THEN FALSE
       ELSE IF meta.state = Corrupt THEN FALSE
       ELSE IF meta.status = "error" THEN FALSE
       ELSE t - meta.cached_at < CACHE_TTL_SECONDS

discovery_is_cache_valid(d, project_id, t) ==
    LET meta == d.meta[project_id]
    IN IF meta.state = Absent THEN FALSE
       ELSE IF meta.state = Corrupt THEN FALSE
       ELSE IF meta.status = "error" THEN FALSE
       ELSE t - meta.cached_at < CACHE_TTL_SECONDS

\* Variant: a read that refuses a cache whose sidecar records an error.
load_cached_artifacts_checking_status(d, project_id) ==
    IF d.manifest[project_id] = Absent \/ d.catalog[project_id] = Absent
    THEN NoPair
    ELSE IF d.manifest[project_id] = Corrupt THEN NoPair
    ELSE IF d.catalog[project_id] = Corrupt THEN NoPair
    ELSE IF d.meta[project_id].status = "error" THEN NoPair
    ELSE <<d.manifest[project_id], d.catalog[project_id]>>

load_cached_artifacts(d, project_id) ==
    IF d.manifest[project_id] = Absent \/ d.catalog[project_id] = Absent
    THEN NoPair
    ELSE IF d.manifest[project_id] = Corrupt THEN NoPair
    ELSE IF d.catalog[project_id] = Corrupt THEN NoPair
    ELSE <<d.manifest[project_id], d.catalog[project_id]>>

load_cached_artifacts_fallback(d, project_id) ==
    IF d.manifest[project_id] = Absent \/ d.catalog[project_id] = Absent
    THEN NoPair
    ELSE IF d.manifest[project_id] = Corrupt THEN NoPair
    ELSE IF d.catalog[project_id] = Corrupt THEN NoPair
    ELSE <<d.manifest[project_id], d.catalog[project_id]>>

\* Variant: recording a failure also removes the cached catalog.
save_cache_metadata_dropping_catalog(d, project_id, success, error, t) ==
    LET status == IF success THEN "success" ELSE "error"
        d1 == [d EXCEPT !.meta[project_id] = Meta(t, status, error),
                        !.catalog[project_id] =
                            IF success THEN @ ELSE Absent]
    IN IF "sidecar" \in faults THEN d
       ELSE update_cache_status(d1, project_id, status, error, t)

\* Variant: recording a failure also removes the cached manifest.
save_cache_metadata_dropping_manifest(d, project_id, success, error, t) ==
    LET status == IF success THEN "success" ELSE "error"
        d1 == [d EXCEPT !.meta[project_id] = Meta(t, status, error),
                        !.manifest[project_id] =
                            IF success THEN @ ELSE Absent]
    IN update_cache_status(d1, project_id, status, error, t)

\* open(meta_path, 'w') may raise; the exception is logged and the log of
\* discovery is not reached.
save_cache_metadata(d, project_id, success, error, t) ==
    LET status == IF success THEN "success" ELSE "error"
        d1 == [d EXCEPT !.meta[project_id] = Meta(t, status, error)]
    IN IF "sidecar" \in faults THEN d
       ELSE update_cache_status(d1, project_id, status, error, t)

\* Variant: the catalog is not written.
cache_artifacts_without_catalog(d, project_id, manifest, catalog, t) ==
    LET d1 == [d EXCEPT !.manifest[project_id] = manifest]
    IN save_cache_metadata(d1, project_id, TRUE, NoError, t)

\* The three files are written one after the other; the write that raises
\* ends the function, the exception is logged.
cache_artifacts(d, project_id, manifest, catalog, t) ==
    LET d1 == [d EXCEPT !.manifest[project_id] = manifest]
        d2 == [d1 EXCEPT !.catalog[project_id] = catalog]
    IN IF "manifest" \in faults THEN d
       ELSE IF "catalog" \in faults THEN d1
       ELSE save_cache_metadata(d2, project_id, TRUE, NoError, t)

\* ------------------------------------------------------------ validation
\* The ValueError raised: what its message tells (the limit, the number of
\* entries requested, the available resources) and the position of the
\* entry the loop stopped at, 0 when it was not reached.
Raise(kind, requested, position, d) ==
    [ok |-> FALSE, ids |-> <<>>, kind |-> kind, limit |-> max_projects,
     requested |-> requested, position |-> position,
     available |-> list_project_ids(d)]
Valid(ids) ==
    [ok |-> TRUE, ids |-> ids, kind |-> "", limit |-> max_projects,
     requested |-> Len(ids), position |-> 0, available |-> <<>>]

\* Variant: the loop stops after one valid entry.
CheckEntries_first_only(rest, all, d) ==
    LET position == Len(all) - Len(rest) + 1
    IN IF rest = <<>> THEN Valid(all)
       ELSE IF Head(rest) = NoneEntry \/ Head(rest) = "null"
            THEN Raise("null", Len(all), position, d)
       ELSE IF Head(rest) = ""
            THEN Raise("empty", Len(all), position, d)
       ELSE IF Head(rest) \notin Range(list_project_ids(d))
            THEN Raise("unknown", Len(all), position, d)
       ELSE Valid(all)

RECURSIVE CheckEntries(_, _, _)
CheckEntries(rest, all, d) ==
    LET position == Len(all) - Len(rest) + 1
    IN IF rest = <<>> THEN Valid(all)
       ELSE IF Head(rest) = NoneEntry \/ Head(rest) = "null"
            THEN Raise("null", Len(all), position, d)
       ELSE IF Head(rest) = ""
            THEN Raise("empty", Len(all), position, d)
       ELSE IF Head(rest) \notin Range(list_project_ids(d))
            THEN Raise("unknown", Len(all), position, d)
       ELSE CheckEntries(Tail(rest), all, d)

\* Variant: a list as long as the limit is refused.
validate_resource_ids_below_limit(d, resource_ids) ==
    IF resource_ids.kind = "none" THEN Valid(<<>>)
    ELSE IF Len(resource_ids.val) = 0 THEN Valid(<<>>)
    ELSE IF Len(resource_ids.val) >= max_projects
         THEN Raise("too_many", Len(resource_ids.val), 0, d)
    ELSE CheckEntries(resource_ids.val, resource_ids.val, d)

\* Variant: the length of the list is not checked.
validate_resource_ids_unlimited(d, resource_ids) ==
    IF resource_ids.kind = "none" THEN Valid(<<>>)
    ELSE IF Len(resource_ids.val) = 0 THEN Valid(<<>>)
    ELSE CheckEntries(resource_ids.val, resource_ids.val, d)

\* resource_ids is [kind |-> "none" | "str" | "list", val |-> <<...>>].
validate_resource_ids(d, resource_ids) ==
    IF resource_ids.kind = "none" THEN Valid(<<>>)
    ELSE IF Len(resource_ids.val) = 0 THEN Valid(<<>>)
    ELSE IF Len(resource_ids.val) > max_projects
         THEN Raise("too_many", Len(resource_ids.val), 0, d)
    ELSE CheckEntries(resource_ids.val, resource_ids.val, d)

\* ------------------------------------------------------------ unique ids
\* Where a unique id is taken apart, it and the resource ids are sequences
\* of characters.
ModelDot == <<"m", "o", "d", "e", "l", ".">>

StartsWith(str, prefix) ==
    /\ Len(str) >= Len(prefix)
    /\ SubSeq(str, 1, Len(prefix)) = prefix

\* str.split(sep)
RECURSIVE Split(_, _)
Split(str, sep) ==
    LET at == {k \in 1..Len(str) : str[k] = sep}
        first == CHOOSE k \in at : \A j \in at : k <= j
    IN IF at = {} THEN <<str>>
       ELSE <<SubSeq(str, 1, first - 1)>>
                \o Split(SubSeq(str, first + 1, Len(str)), sep)

\* str.replace(old, new) for single characters
Replace(str, old, new) ==
    [k \in 1..Len(str) |-> IF str[k] = old THEN new ELSE str[k]]

NoProject == [none |-> TRUE, id |-> <<>>]
Project(id) == [none |-> FALSE, id |-> id]

\* Variant: the underscore spelling is tried before the dash spelling.
extract_project_from_unique_id_underscore_first(d, unique_id) ==
    IF unique_id = <<>> \/ ~StartsWith(unique_id, ModelDot) THEN NoProject
    ELSE LET parts == Split(unique_id, ".")
             project_name == parts[2]
             available_project_ids == Range(list_project_ids(d))
             project_id_dash == Replace(project_name, "_", "-")
             project_id_underscore == Replace(project_name, "-", "_")
         IN IF Len(parts) < 3 THEN NoProject
            ELSE IF project_name \in available_project_ids
                 THEN Project(project_name)
            ELSE IF project_id_underscore \in available_project_ids
                 THEN Project(project_id_underscore)
            ELSE IF project_id_dash \in available_project_ids
                 THEN Project(project_id_dash)
            ELSE NoProject

extract_project_from_unique_id(d, unique_id) ==
    IF unique_id = <<>> \/ ~StartsWith(unique_id, ModelDot) THEN NoProject
    ELSE LET parts == Split(unique_id, ".")
             project_name == parts[2]
             available_project_ids == Range(list_project_ids(d))
             project_id_dash == Replace(project_name, "_", "-")
             project_id_underscore == Replace(project_name, "-", "_")
         IN IF Len(parts) < 3 THEN NoProject
            ELSE IF project_name \in available_project_ids
                 THEN Project(project_name)
            ELSE IF project_id_dash \in available_project_ids
                 THEN Project(project_id_dash)
            ELSE IF project_id_underscore \in available_project_ids
                 THEN Project(project_id_underscore)
            ELSE NoProject

\* The project id returned, or the ValueError raised.
validate_unique_id_project(d, unique_id) ==
    LET project_id == extract_project_from_unique_id(d, unique_id)
    IN IF project_id.none \/ project_id.id = <<>>
       THEN [raised |-> TRUE, project_id |-> <<>>]
       ELSE [raised |-> FALSE, project_id |-> project_id.id]

\* ---------------------------------------------------------- remote fetch
\* One HTTP GET as its outcome: the request raises (timeout, connection
\* error) or answers with a status, an optional content-length and a body.
\* Responses(v) are the outcomes possible while the remote file is at
\* version v.
TimedOut == [exc |-> TRUE, status |-> 0, length |-> NoHeader, body |-> BadJson]
NotFound == [exc |-> FALSE, status |-> 404, length |-> NoHeader, body |-> BadJson]
Responses(v) ==
    {TimedOut, NotFound,
     [exc |-> FALSE, status |-> 200, length |-> NoHeader, body |-> BadJson],
     [exc |-> FALSE, status |-> 200, length |-> MAX_FILE_SIZE + 1, body |-> v],
     [exc |-> FALSE, status |-> 200, length |-> MAX_FILE_SIZE, body |-> v],
     [exc |-> FALSE, status |-> 200, length |-> NoHeader, body |-> v]}

\* session.get(url) up to json.loads: the document, or the exception raised.
HttpGetJson(what, r) ==
    IF r.exc THEN [ok |-> FALSE, doc |-> "", error |-> "timeout"]
    ELSE IF r.status # 200
         THEN [ok |-> FALSE, doc |-> "", error |-> "Failed to fetch " \o what]
    ELSE IF r.length # NoHeader /\ r.length > MAX_FILE_SIZE
         THEN [ok |-> FALSE, doc |-> "", error |-> what \o " file too large"]
    ELSE IF r.body = BadJson
         THEN [ok |-> FALSE, doc |-> "", error |-> "JSONDecodeError"]
    ELSE [ok |-> TRUE, doc |-> r.body, error |-> NoError]

\* The body of _fetch_github_artifacts from the session on: rm and rc are
\* the outcomes of the manifest and the catalog request.  fetched tells
\* whether the pair came from the source, gets counts the requests issued.
fetch_github_artifacts(d, project_id, rm, rc) ==
    LET m == HttpGetJson("manifest", rm)
        c == HttpGetJson("catalog", rc)
        error == IF m.ok THEN c.error ELSE m.error
        gets == IF m.ok THEN 2 ELSE 1
        cached_artifacts == load_cached_artifacts_fallback(d, project_id)
    IN IF m.ok /\ c.ok
       THEN [raised |-> FALSE, pair |-> <<m.doc, c.doc>>, error |-> NoError,
             fetched |-> TRUE, gets |-> gets]
       ELSE IF cached_artifacts # NoPair
            THEN [raised |-> FALSE, pair |-> cached_artifacts, error |-> error,
                  fetched |-> FALSE, gets |-> gets]
            ELSE [raised |-> TRUE, pair |-> NoPair, error |-> error,
                  fetched |-> FALSE, gets |-> gets]

\* ------------------------------------------------------------- the calls
EmptyMap == [k \in {} |-> ""]
Put(m, k, v) == [y \in DOMAIN m \cup {k} |-> IF y = k THEN v ELSE m[y]]

\* Variant: every entry reports success.
Result_always_success(success, action, error) ==
    [success |-> TRUE, action |-> action, error |-> error]

Result(success, action, error) ==
    [success |-> success, action |-> action, error |-> error]

\* What _fetch_github_artifacts holds before its requests are answered.
NoFetch == [raised |-> FALSE, pair |-> NoPair, error |-> NoError,
            fetched |-> FALSE, gets |-> 0]

Idle ==
    [pc |-> "idle", op |-> "none", force |-> FALSE, ids |-> <<>>, i |-> 1,
     artifacts |-> EmptyMap, refresh_results |-> EmptyMap,
     outcome |-> "none", validation |-> Valid(<<>>), held |-> NoFetch]

\* History of a resource.  The last iteration that went past the cache
\* (action "fetched" or "omitted" of get_project_artifacts, "refreshed" or
\* "failed" of refresh_cache): the operation, its force flag, whether the
\* source was asked and answered ("ok", "failed", "none") and the pair
\* concerned, which is the one the source delivered when it answered and
\* else the one loadable from the cache before the iteration.  Since then:
\* read, a get_project_artifacts returned the resource from the cache;
\* skipped, a refresh_cache skipped it.  at is the time of the last
\* iteration of either kind that was not a read.
Last(op, force, action, at, pre, fetch, got) ==
    [op |-> op, force |-> force, action |-> action, at |-> at,
     fetch |-> fetch, pair |-> IF fetch = "ok" THEN got ELSE pre,
     read |-> FALSE, skipped |-> FALSE]
Untouched == Last("none", FALSE, "none", 0, NoPair, "none", NoPair)

RECURSIVE SeqsUpTo(_, _)
SeqsUpTo(S, n) ==
    IF n = 0 THEN {<<>>}
    ELSE LET shorter == SeqsUpTo(S, n - 1)
         IN shorter \cup {Append(s, e) : s \in shorter, e \in S}

\* The resource_ids a caller passes: None, a bare string, or a list up to
\* MaxLen long of repository names, empty strings, "null" and None.
BadEntries == {"", "null", NoneEntry}
Inputs ==
    {[kind |-> "none", val |-> <<>>]} \cup
    {[kind |-> "str", val |-> <<e>>] : e \in {"a-models", "c-models", ""}} \cup
    {[kind |-> "list", val |-> s] : s \in SeqsUpTo(Repos \cup BadEntries, MaxLen)}

SetDisk(d) ==
    /\ manifestFile' = d.manifest
    /\ catalogFile' = d.catalog
    /\ metaFile' = d.meta
    /\ csv' = d.csv

\* Entry of both operations: validation, then expansion of an empty list.
Enter(c, op, resource_ids, force) ==
    LET v == validate_resource_ids(Disk, resource_ids)
        ids == IF v.ids = <<>> THEN list_project_ids(Disk) ELSE v.ids
    IN /\ call[c].pc \in {"idle", "done"}
       /\ started < MaxCalls
       /\ started' = started + 1
       /\ call' = [call EXCEPT ![c] =
                     IF v.ok
                     THEN [Idle EXCEPT !.pc = "loop", !.op = op, !.force = force,
                                       !.ids = ids, !.outcome = "pending",
                                       !.validation = v]
                     ELSE [Idle EXCEPT !.pc = "done", !.op = op, !.force = force,
                                       !.outcome = "raised", !.validation = v]]
       /\ UNCHANGED <<csv, manifestFile, catalogFile, metaFile, now, last>>
       /\ UNCHANGED beside_calls

CallGetProjectArtifacts(c) ==
    \E resource_ids \in Inputs : Enter(c, "get", resource_ids, FALSE)

CallRefreshCache(c) ==
    \E resource_ids \in Inputs, force \in BOOLEAN :
        Enter(c, "refresh", resource_ids, force)

Current(c) == call[c].ids[call[c].i]
InLoop(c, op) ==
    /\ call[c].pc = "loop"
    /\ call[c].op = op
    /\ call[c].i <= Len(call[c].ids)

\* get_project_artifacts, one iteration of the loop up to its await.
GetLoop(c) ==
    /\ InLoop(c, "get")
    /\ LET project_id == Current(c)
           cached_artifacts == load_cached_artifacts(Disk, project_id)
       IN IF cached_artifacts # NoPair
          THEN /\ call' = [call EXCEPT
                    ![c].artifacts = Put(@, project_id, cached_artifacts),
                    ![c].i = @ + 1]
               /\ last' = [last EXCEPT ![project_id].read = TRUE]
          ELSE IF ~get_project_by_id(Disk, project_id)
          THEN /\ call' = [call EXCEPT ![c].i = @ + 1]
               /\ last' = [last EXCEPT ![project_id] =
                    Last("get", FALSE, "omitted", now, NoPair, "none", NoPair)]
          ELSE /\ call' = [call EXCEPT ![c].pc = "await"]
               /\ UNCHANGED last
    /\ UNCHANGED <<csv, manifestFile, catalogFile, metaFile, now, started>>
    /\ UNCHANGED beside_calls

\* Variant: a valid cache is skipped whatever the force flag.
RefreshLoop_ignoring_force(c) ==
    /\ InLoop(c, "refresh")
    /\ LET project_id == Current(c)
           cache_valid == is_cache_valid(Disk, project_id, now)
           pre == load_cached_artifacts(Disk, project_id)
           error == "Unknown project ID"
       IN IF cache_valid
          THEN /\ call' = [call EXCEPT
                    ![c].refresh_results =
                        Put(@, project_id, Result(TRUE, "skipped", NoError)),
                    ![c].i = @ + 1]
               /\ last' = [last EXCEPT ![project_id].skipped = TRUE,
                                        ![project_id].at = now]
               /\ UNCHANGED <<csv, manifestFile, catalogFile, metaFile>>
          ELSE IF ~get_project_by_id(Disk, project_id)
          THEN /\ SetDisk(save_cache_metadata(Disk, project_id, FALSE, error, now))
               /\ call' = [call EXCEPT
                    ![c].refresh_results =
                        Put(@, project_id, Result(FALSE, "failed", error)),
                    ![c].i = @ + 1]
               /\ last' = [last EXCEPT ![project_id] =
                    Last("refresh", call[c].force, "failed", now, pre, "none", NoPair)]
          ELSE /\ call' = [call EXCEPT ![c].pc = "await"]
               /\ UNCHANGED <<csv, manifestFile, catalogFile, metaFile, last>>
    /\ UNCHANGED <<now, started>>
    /\ UNCHANGED beside_calls

\* refresh_cache, one iteration of the loop up to its await.
RefreshLoop(c) ==
    /\ InLoop(c, "refresh")
    /\ LET project_id == Current(c)
           cache_valid == is_cache_valid(Disk, project_id, now)
           pre == load_cached_artifacts(Disk, project_id)
           error == "Unknown project ID"
       IN IF ~call[c].force /\ cache_valid
          THEN /\ call' = [call EXCEPT
                    ![c].refresh_results =
                        Put(@, project_id, Result(TRUE, "skipped", NoError)),
                    ![c].i = @ + 1]
               /\ last' = [last EXCEPT ![project_id].skipped = TRUE,
                                        ![project_id].at = now]
               /\ UNCHANGED <<csv, manifestFile, catalogFile, metaFile>>
          ELSE IF ~get_project_by_id(Disk, project_id)
          THEN /\ SetDisk(save_cache_metadata(Disk, project_id, FALSE, error, now))
               /\ call' = [call EXCEPT
                    ![c].refresh_results =
                        Put(@, project_id, Result(FALSE, "failed", error)),
                    ![c].i = @ + 1]
               /\ last' = [last EXCEPT ![project_id] =
                    Last("refresh", call[c].force, "failed", now, pre, "none", NoPair)]
          ELSE /\ call' = [call EXCEPT ![c].pc = "await"]
               /\ UNCHANGED <<csv, manifestFile, catalogFile, metaFile, last>>
    /\ UNCHANGED <<now, started>>
    /\ UNCHANGED beside_calls

\* _fetch_github_artifacts has returned or raised, with f, and the iteration
\* ends: the pair is cached, or the failure is recorded.
Completed(c, f) ==
    /\  LET project_id == Current(c)
            pre == load_cached_artifacts(Disk, project_id)
            fetch == IF f.fetched THEN "ok" ELSE "failed"
            got == IF f.fetched THEN f.pair ELSE NoPair
        IN IF call[c].op = "get"
           THEN IF f.raised
                THEN /\ call' = [call EXCEPT ![c].pc = "loop", ![c].i = @ + 1,
                          ![c].held = NoFetch]
                     /\ last' = [last EXCEPT ![project_id] =
                          Last("get", FALSE, "omitted", now, pre, fetch, got)]
                     /\ UNCHANGED <<csv, manifestFile, catalogFile, metaFile>>
                ELSE /\ SetDisk(cache_artifacts(Disk, project_id,
                                                f.pair[1], f.pair[2], now))
                     /\ call' = [call EXCEPT
                          ![c].pc = "loop", ![c].i = @ + 1,
                          ![c].held = NoFetch,
                          ![c].artifacts = Put(@, project_id, f.pair)]
                     /\ last' = [last EXCEPT ![project_id] =
                          Last("get", FALSE, "fetched", now, pre, fetch, got)]
           ELSE IF f.raised
                THEN /\ SetDisk(save_cache_metadata(Disk, project_id, FALSE,
                                                    f.error, now))
                     /\ call' = [call EXCEPT
                          ![c].pc = "loop", ![c].i = @ + 1,
                          ![c].held = NoFetch,
                          ![c].refresh_results =
                              Put(@, project_id, Result(FALSE, "failed", f.error))]
                     /\ last' = [last EXCEPT ![project_id] =
                          Last("refresh", call[c].force, "failed", now, pre, fetch, got)]
                ELSE /\ SetDisk(cache_artifacts(Disk, project_id,
                                                f.pair[1], f.pair[2], now))
                     /\ call' = [call EXCEPT
                          ![c].pc = "loop", ![c].i = @ + 1,
                          ![c].held = NoFetch,
                          ![c].refresh_results =
                              Put(@, project_id, Result(TRUE, "refreshed", NoError))]
                     /\ last' = [last EXCEPT ![project_id] =
                          Last("refresh", call[c].force, "refreshed", now, pre, fetch, got)]
    /\ UNCHANGED <<now, started>>
    /\ UNCHANGED beside_calls

\* The awaited _fetch_github_artifacts completes, its two requests answered
\* by rm and rc, and the iteration ends.
Fetched(c, rm, rc) ==
    /\ call[c].pc = "await"
    /\ Completed(c, fetch_github_artifacts(Disk, Current(c), rm, rc))

FetchDone(c) ==
    \E v \in Docs : \E rm, rc \in Responses(v) : Fetched(c, rm, rc)

\* Variant: get_project_artifacts raises as soon as one resource is missing.
Return_raising_on_any_failure(c) ==
    /\ call[c].pc = "loop"
    /\ call[c].i > Len(call[c].ids)
    /\ call' = [call EXCEPT
          ![c].pc = "done",
          ![c].outcome = IF call[c].op = "get"
                            /\ DOMAIN call[c].artifacts # Range(call[c].ids)
                         THEN "raised" ELSE "returned"]
    /\ UNCHANGED <<csv, manifestFile, catalogFile, metaFile, now, last, started>>
    /\ UNCHANGED beside_calls

\* The loop is over: get_project_artifacts raises on an empty map.
Return(c) ==
    /\ call[c].pc = "loop"
    /\ call[c].i > Len(call[c].ids)
    /\ call' = [call EXCEPT
          ![c].pc = "done",
          ![c].outcome = IF call[c].op = "get" /\ DOMAIN call[c].artifacts = {}
                         THEN "raised" ELSE "returned"]
    /\ UNCHANGED <<csv, manifestFile, catalogFile, metaFile, now, last, started>>
    /\ UNCHANGED beside_calls

Tick ==
    /\ now < MaxTime
    /\ now' = now + 1
    /\ UNCHANGED <<csv, manifestFile, catalogFile, metaFile, call, last, started>>
    /\ UNCHANGED beside_calls

\* ------------------------------------------------------- discovery run
\* The listing is paged per_page repositories at a time (100 in the code;
\* the model pages by two), newest repository first.
per_page == 2
RepoNames == Repos \cup {OtherRepo}

Min(a, b) == IF a < b THEN a ELSE b
PageOf(listing, page) ==
    SubSeq(listing, (page - 1) * per_page + 1, Min(page * per_page, Len(listing)))

RECURSIVE Filter(_, _)
Filter(seq, S) ==
    IF seq = <<>> THEN <<>>
    ELSE IF Head(seq) \in S THEN <<Head(seq)>> \o Filter(Tail(seq), S)
    ELSE Filter(Tail(seq), S)

\* One request for a page of the listing, as the loop sees it: a page, a
\* rate-limit 403 with or without a known reset time, another status, or an
\* exception out of the session.
ListOutcomes == {"page", "rate_limited_reset", "rate_limited", "status", "raise"}

\* One request for the docs branch of a repository, and the retry that
\* follows a rate-limit 403 when the reset time is known.
Probe(exc, status, rate_limited, reset, retry_exc, retry_status) ==
    [exc |-> exc, status |-> status, rate_limited |-> rate_limited,
     reset |-> reset, retry_exc |-> retry_exc, retry_status |-> retry_status]
ProbeResponses ==
    {Probe(FALSE, 200, FALSE, FALSE, FALSE, 0),
     Probe(FALSE, 404, FALSE, FALSE, FALSE, 0),
     Probe(TRUE, 0, FALSE, FALSE, FALSE, 0),
     Probe(FALSE, 403, FALSE, FALSE, FALSE, 0),
     Probe(FALSE, 403, TRUE, FALSE, FALSE, 0),
     Probe(FALSE, 403, TRUE, TRUE, FALSE, 200),
     Probe(FALSE, 403, TRUE, TRUE, FALSE, 404),
     Probe(FALSE, 403, TRUE, TRUE, TRUE, 0)}

\* Variant: whatever the retry answers counts as a docs branch.
check_docs_branch_trusting_retry(r) ==
    IF r.exc THEN FALSE
    ELSE IF r.status = 403 /\ r.rate_limited
         THEN IF r.reset
              THEN IF r.retry_exc THEN FALSE ELSE TRUE
              ELSE FALSE
    ELSE r.status = 200

check_docs_branch(r) ==
    IF r.exc THEN FALSE
    ELSE IF r.status = 403 /\ r.rate_limited
         THEN IF r.reset
              THEN IF r.retry_exc THEN FALSE ELSE r.retry_status = 200
              ELSE FALSE
    ELSE r.status = 200

\* str(has_docs)
Str(b) == IF b THEN "True" ELSE "False"

\* existing_by_id: the last row of each resource id.
existing_by_id(existing_data, resource_id) ==
    LET hits == {j \in 1..Len(existing_data) :
                    existing_data[j].resource_id = resource_id}
    IN existing_data[CHOOSE j \in hits : \A k \in hits : k <= j]

\* The projects with the cache status of their existing rows, and the disk
\* after they have been written.
update_discovered_projects(d, projects) ==
    LET existing_data == read_csv_data(d)
        ids == {existing_data[j].resource_id : j \in 1..Len(existing_data)}
        updated ==
            [k \in 1..Len(projects) |->
                IF projects[k].resource_id \in ids
                THEN LET existing_row ==
                             existing_by_id(existing_data, projects[k].resource_id)
                     IN [projects[k] EXCEPT
                            !.cached_at = existing_row.cached_at,
                            !.status = existing_row.status,
                            !.error = existing_row.error]
                ELSE projects[k]]
    IN [projects |-> updated, disk |-> write_csv_data(d, updated)]

\* The discovery coroutine: its arguments, its local variables while it
\* runs, and what it returned.  Kept for the record after the return:
\* repos_skipped_cache, probed (the repositories _check_docs_branch was
\* called for, in order) and failed (the run ended in its except clause).
NoRun ==
    [pc |-> "idle", skip_valid_cache |-> FALSE, force_refresh |-> FALSE,
     specific_projects |-> <<>>, page |-> 1, waits |-> 0, repos |-> <<>>,
     repos_skipped_cache |-> <<>>, repos_to_check |-> <<>>, i |-> 1,
     valid_projects |-> <<>>, probed |-> <<>>,
     result |-> <<>>, failed |-> FALSE, runs |-> 0]

SpecificProjects == {<<>>, <<"a-models">>}

\* Variant: the except clause lets the exception go on to the caller.
Returned_raising(run, result, failed) ==
    IF failed THEN [run EXCEPT !.pc = "raised"]
    ELSE [run EXCEPT !.pc = "done", !.page = 1, !.waits = 0, !.repos = <<>>,
                     !.repos_to_check = <<>>, !.i = 1, !.valid_projects = <<>>,
                     !.result = result, !.failed = failed]

\* The return: the local variables are gone.
Returned(run, result, failed) ==
    [run EXCEPT !.pc = "done", !.page = 1, !.waits = 0, !.repos = <<>>,
                !.repos_to_check = <<>>, !.i = 1, !.valid_projects = <<>>,
                !.result = result, !.failed = failed]

\* discover_flipside_projects is called; it asks for the first page.
DiscoverStart ==
    /\ disc.pc \in {"idle", "done"}
    /\ disc.runs < MaxRuns
    /\ \E skip_valid_cache, force_refresh \in BOOLEAN :
       \E specific_projects \in SpecificProjects :
        disc' = [NoRun EXCEPT !.pc = "list",
                              !.skip_valid_cache = skip_valid_cache,
                              !.force_refresh = force_refresh,
                              !.specific_projects = specific_projects,
                              !.runs = disc.runs + 1]
    /\ UNCHANGED <<csv, now, started, org, probe>>
    /\ UNCHANGED beside_discovery

\* The run ends: _update_discovered_projects, then the return.
Finished(run, valid_projects) ==
    LET u == update_discovered_projects(Disk, valid_projects)
    IN [disc |-> Returned(run, u.projects, FALSE), csv |-> u.disk.csv]

\* The listing is over: the candidates are selected and split, the skipped
\* ones are recorded, and the first probe is awaited; with nothing to probe
\* the run ends here.
Listed(run, repos) ==
    LET named == Filter(repos, Repos)
        model_repos == IF run.specific_projects # <<>>
                       THEN Filter(named, Range(run.specific_projects))
                       ELSE named
        optimise == run.skip_valid_cache /\ ~run.force_refresh
        valid == {x \in Range(model_repos) :
                     discovery_is_cache_valid(Disk, x, now)}
        repos_skipped_cache == IF optimise THEN Filter(model_repos, valid)
                               ELSE <<>>
        repos_to_check == IF optimise
                          THEN Filter(model_repos, Range(model_repos) \ valid)
                          ELSE model_repos
        valid_projects == [k \in 1..Len(repos_skipped_cache) |->
                              project_data(repos_skipped_cache[k], "True", now)]
        probing == [run EXCEPT !.pc = "probe", !.repos = repos,
                               !.page = 1, !.waits = 0,
                               !.repos_skipped_cache = repos_skipped_cache,
                               !.repos_to_check = repos_to_check,
                               !.valid_projects = valid_projects, !.i = 1]
    IN IF repos_to_check = <<>>
       THEN Finished(probing, valid_projects)
       ELSE [disc |-> probing, csv |-> csv]

\* Variant: the retry after a rate-limit wait asks for the next page.
Listing_retry_next_page(outcome) ==
    /\ disc.pc = "list"
    /\  LET page_repos == PageOf(org, disc.page)
            repos == disc.repos \o page_repos
            next ==
              IF outcome = "raise"
              THEN [disc |-> Returned(disc, <<>>, TRUE), csv |-> csv]
              ELSE IF outcome = "rate_limited_reset"
              THEN [disc |-> [disc EXCEPT !.waits = @ + 1, !.page = @ + 1], csv |-> csv]
              ELSE IF outcome \in {"rate_limited", "status"}
              THEN Listed(disc, disc.repos)
              ELSE IF page_repos = <<>>
              THEN Listed(disc, disc.repos)
              ELSE IF Len(page_repos) < per_page
              THEN Listed(disc, repos)
              ELSE [disc |-> [disc EXCEPT !.repos = repos, !.page = @ + 1],
                    csv |-> csv]
        IN /\ outcome = "rate_limited_reset" => disc.waits < MaxWaits
           /\ disc' = next.disc
           /\ csv' = next.csv
    /\ UNCHANGED <<now, started, org, probe>>
    /\ UNCHANGED beside_discovery

\* One response of _get_flipside_repositories' loop.
Listing(outcome) ==
    /\ disc.pc = "list"
    /\  LET page_repos == PageOf(org, disc.page)
            repos == disc.repos \o page_repos
            next ==
              IF outcome = "raise"
              THEN [disc |-> Returned(disc, <<>>, TRUE), csv |-> csv]
              ELSE IF outcome = "rate_limited_reset"
              THEN [disc |-> [disc EXCEPT !.waits = @ + 1], csv |-> csv]
              ELSE IF outcome \in {"rate_limited", "status"}
              THEN Listed(disc, disc.repos)
              ELSE IF page_repos = <<>>
              THEN Listed(disc, disc.repos)
              ELSE IF Len(page_repos) < per_page
              THEN Listed(disc, repos)
              ELSE [disc |-> [disc EXCEPT !.repos = repos, !.page = @ + 1],
                    csv |-> csv]
        IN /\ outcome = "rate_limited_reset" => disc.waits < MaxWaits
           /\ disc' = next.disc
           /\ csv' = next.csv
    /\ UNCHANGED <<now, started, org, probe>>
    /\ UNCHANGED beside_discovery

ListPage == \E outcome \in ListOutcomes : Listing(outcome)

\* One _check_docs_branch returns, its request (and retry) answered by r.
Probed(r) ==
    /\ disc.pc = "probe"
    /\  LET repo == disc.repos_to_check[disc.i]
            has_docs == check_docs_branch(r)
            valid_projects ==
                Append(disc.valid_projects, project_data(repo, Str(has_docs), now))
            run == [disc EXCEPT !.probed = Append(@, repo),
                                !.valid_projects = valid_projects,
                                !.i = @ + 1]
            next == IF disc.i = Len(disc.repos_to_check)
                    THEN Finished(run, valid_projects)
                    ELSE [disc |-> run, csv |-> csv]
        IN /\ disc' = next.disc
           /\ csv' = next.csv
    /\ UNCHANGED <<now, started, org>>
    /\ UNCHANGED beside_discovery

\* A whole call of _check_docs_branch, with the responses r.
ProbeDone == \E r \in ProbeResponses : Probed(r) /\ UNCHANGED probe

\* A repository is created in the organisation; it is listed first.
RepoCreated ==
    /\ \E name \in RepoNames \ Range(org) : org' = <<name>> \o org
    /\ UNCHANGED <<csv, now, started, disc, probe>>
    /\ UNCHANGED beside_discovery

\* ------------------------------------------------------------------ Init
\* What the cache directory of one resource holds at start: nothing, or
\* what a run interrupted inside _cache_artifacts left behind.
\* What the cache directory of one resource holds when the process starts:
\* nothing; a pair cached by an earlier run at time 0; or what an earlier
\* run interrupted inside _cache_artifacts left behind (the catalog not
\* written, the sidecar not written over the error of a failed refresh, the
\* sidecar half written).
NoCache == [m |-> Absent, c |-> Absent, meta |-> NoMeta]
Cached == [m |-> "v1", c |-> "v1", meta |-> Meta(0, "success", NoError)]
Unrecorded == [m |-> "v1", c |-> "v1", meta |-> Meta(0, "error", "timeout")]
InitCaches ==
    {NoCache, Cached, Unrecorded,
     [m |-> "v1", c |-> Corrupt, meta |-> NoMeta],
     [m |-> "v1", c |-> "v1", meta |-> BadMeta]}

\* The row of the discovery log that goes with such a cache directory.
InitRow(id, docs, meta) ==
    IF meta.state = "ok"
    THEN Row(id, docs, meta.cached_at, meta.status,
             IF meta.error = NoError THEN "" ELSE meta.error)
    ELSE Row(id, docs, NoTime, "", "")

Init ==
    /\ \E left \in [Repos -> InitCaches] :
        /\ left["b-models"] \in {NoCache, Unrecorded}
        /\ left["c-models"] = NoCache
        /\ \/ csv = <<InitRow("a-models", "True", left["a-models"].meta),
                      InitRow("b-models", "True", left["b-models"].meta),
                      InitRow("c-models", "False", left["c-models"].meta)>>
           \/ csv = <<>> /\ \A x \in Repos : left[x] = NoCache
        /\ manifestFile = [x \in Repos |-> left[x].m]
        /\ catalogFile = [x \in Repos |-> left[x].c]
        /\ metaFile = [x \in Repos |-> left[x].meta]
    /\ now = 0
    /\ max_projects = MAX_PROJECTS
    /\ call = [c \in Callers |-> Idle]
    /\ last = [x \in Repos |-> Untouched]
    /\ started = 0
    /\ org = <<"a-models", "b-models", OtherRepo>>
    /\ faults = {}
    /\ disc = NoRun
    /\ parse = NoParse
    /\ probe = NoProbe
    /\ query = NoQuery

Next ==
    \/ \E c \in Sequential : CallGetProjectArtifacts(c)
    \/ \E c \in Sequential : CallRefreshCache(c)
    \/ \E c \in Sequential : GetLoop(c)
    \/ \E c \in Sequential : RefreshLoop(c)
    \/ \E c \in Sequential : FetchDone(c)
    \/ \E c \in Sequential : Return(c)
    \/ Tick

Spec == Init /\ [][Next]_vars

\* Calls in a narrower setting: refresh_cache of one resource given as a
\* bare string; each request of a fetch answered in full or timing out.
RefreshOne(c) ==
    \E x \in {"a-models", "b-models"}, force \in BOOLEAN :
        Enter(c, "refresh", [kind |-> "str", val |-> <<x>>], force)
FetchedOrTimedOut(c) ==
    \E rm, rc \in {TimedOut, [exc |-> FALSE, status |-> 200,
                               length |-> NoHeader, body |-> "v2"]} :
        Fetched(c, rm, rc)

\* The store and the cache an earlier run left: a-models with a fresh
\* cache, b-models with none or with one of a failed refresh, c-models
\* without a docs branch.
Leftover ==
    \E left_b \in {NoCache, Unrecorded} :
        /\ csv = <<InitRow("a-models", "True", Cached.meta),
                   InitRow("b-models", "True", left_b.meta),
                   InitRow("c-models", "False", NoCache.meta)>>
        /\ manifestFile = [x \in Repos |->
              IF x = "a-models" THEN Cached.m
              ELSE IF x = "b-models" THEN left_b.m ELSE Absent]
        /\ catalogFile = [x \in Repos |->
              IF x = "a-models" THEN Cached.c
              ELSE IF x = "b-models" THEN left_b.c ELSE Absent]
        /\ metaFile = [x \in Repos |->
              IF x = "a-models" THEN Cached.meta
              ELSE IF x = "b-models" THEN left_b.meta ELSE NoMeta]

\* The calls of a ProjectManager configured with a limit of one resource or
\* more per request.
ValidationInit ==
    /\ Leftover
    /\ now = 0
    /\ max_projects \in 1..MaxLen
    /\ call = [c \in Callers |-> Idle]
    /\ last = [x \in Repos |-> Untouched]
    /\ started = 0
    /\ org = <<"a-models", "b-models", OtherRepo>>
    /\ faults = {}
    /\ disc = NoRun
    /\ parse = NoParse
    /\ probe = NoProbe
    /\ query = NoQuery

ValidationNext ==
    \/ \E c \in Sequential : CallGetProjectArtifacts(c)
    \/ \E c \in Sequential : CallRefreshCache(c)
    \/ \E c \in Sequential : GetLoop(c)
    \/ \E c \in Sequential : RefreshLoop(c)
    \/ \E c \in Sequential : FetchedOrTimedOut(c)
    \/ \E c \in Sequential : Return(c)

ValidationSpec == ValidationInit /\ [][ValidationNext]_vars

\* Resolution of unique ids.  The registry holds resource ids spelled with
\* dashes, with underscores and with both, each with or without a docs
\* branch; the unique ids are a prefix followed by up to MaxIdLen characters.
SpelledIds == {<<"_", "-">>, <<"-", "-">>, <<"_", "_">>, <<"x">>}
SpelledRow(id, docs) ==
    [resource_id |-> id, name |-> "", blockchain |-> "", category |-> "",
     aliases |-> {}, location |-> "", cached_at |-> NoTime, status |-> "",
     error |-> "", discovered_at |-> 0, has_docs_branch |-> docs]
UniqueIds ==
    {prefix \o rest :
        prefix \in {ModelDot, <<"m", "o", "d", "e", "l">>, <<>>},
        rest \in SeqsUpTo({"x", "_", "-", "."}, MaxIdLen)}

ResolveInit ==
    /\ \E with_docs \in SUBSET SpelledIds :
        csv = <<SpelledRow(<<"_", "-">>, Str(<<"_", "-">> \in with_docs)),
                SpelledRow(<<"-", "-">>, Str(<<"-", "-">> \in with_docs)),
                SpelledRow(<<"_", "_">>, Str(<<"_", "_">> \in with_docs)),
                SpelledRow(<<"x">>, Str(<<"x">> \in with_docs))>>
    /\ manifestFile = [x \in Repos |-> Absent]
    /\ catalogFile = [x \in Repos |-> Absent]
    /\ metaFile = [x \in Repos |-> NoMeta]
    /\ now = 0
    /\ max_projects = MAX_PROJECTS
    /\ call = [c \in Callers |-> Idle]
    /\ last = [x \in Repos |-> Untouched]
    /\ started = 0
    /\ org = <<>>
    /\ faults = {}
    /\ disc = NoRun
    /\ \E unique_id \in UniqueIds :
        parse = [NoParse EXCEPT !.pc = "called", !.unique_id = unique_id]
    /\ probe = NoProbe
    /\ query = NoQuery

\* _validate_unique_id_project returns or raises.
Resolve ==
    /\ parse.pc = "called"
    /\ LET r == validate_unique_id_project(Disk, parse.unique_id)
       IN parse' = [parse EXCEPT !.pc = "done", !.project_id = r.project_id,
                                 !.raised = r.raised]
    /\ UNCHANGED <<csv, manifestFile, catalogFile, metaFile, now, call, last,
                   started, max_projects, org, faults, disc, probe, query>>

ResolveSpec == ResolveInit /\ [][Resolve]_vars

\* Discovery runs on a store whose reads or writes may raise.
FaultyInit ==
    /\ Leftover
    /\ now = 0
    /\ max_projects = MAX_PROJECTS
    /\ call = [c \in Callers |-> Idle]
    /\ last = [x \in Repos |-> Untouched]
    /\ started = 0
    /\ org = <<"a-models", "b-models", OtherRepo>>
    /\ faults \in SUBSET {"read", "write"}
    /\ disc = NoRun
    /\ parse = NoParse
    /\ probe = NoProbe
    /\ query = NoQuery

FaultyNext ==
    \/ DiscoverStart
    \/ ListPage
    \/ ProbeDone
    \/ RepoCreated

FaultySpec == FaultyInit /\ [][FaultyNext]_vars

\* Discovery runs followed by refresh_cache calls.
DiscoveryInit ==
    /\ Leftover
    /\ now = 0
    /\ max_projects = MAX_PROJECTS
    /\ call = [c \in Callers |-> Idle]
    /\ last = [x \in Repos |-> Untouched]
    /\ started = 0
    /\ org = <<"a-models", "b-models", OtherRepo>>
    /\ faults = {}
    /\ disc = NoRun
    /\ parse = NoParse
    /\ probe = NoProbe
    /\ query = NoQuery

\* As in the discovery API handler, which awaits discover_projects and then
\* refresh_cache, a run and a call do not overlap and every refresh_cache
\* comes after a run of its own.
Quiet == \A c \in Callers : call[c].pc \in {"idle", "done"}
Discovered == disc.pc = "done" /\ started < disc.runs

DiscoveryNext ==
    \/ Quiet /\ DiscoverStart
    \/ ListPage
    \/ ProbeDone
    \/ RepoCreated
    \/ \E c \in Sequential : Discovered /\ RefreshOne(c)
    \/ \E c \in Sequential : RefreshLoop(c)
    \/ \E c \in Sequential : FetchedOrTimedOut(c)
    \/ \E c \in Sequential : Return(c)

DiscoverySpec == DiscoveryInit /\ [][DiscoveryNext]_vars

\* Discovery runs, each followed by one call of the cache manager, on every
\* cache directory of a-models the process can start with.
LifetimeInit ==
    /\ Init
    /\ csv # <<>>
    /\ manifestFile["b-models"] = Absent
GetOne(c) ==
    \E x \in {"a-models", "b-models"} :
        Enter(c, "get", [kind |-> "str", val |-> <<x>>], FALSE)

LifetimeNext ==
    \/ DiscoveryNext
    \/ \E c \in Sequential : Discovered /\ GetOne(c)
    \/ \E c \in Sequential : GetLoop(c)

LifetimeSpec == LifetimeInit /\ [][LifetimeNext]_vars

\* ------------------------------------------ two callers, await by await
\* The requests of _fetch_github_artifacts are answered, by rm and rc; on a
\* failure the fallback is read.  The coroutine is then at the exit of
\* "async with aiohttp.ClientSession()", where it awaits the close of the
\* session before it returns or raises to refresh_cache.
FetchSettled(c, rm, rc) ==
    /\ call[c].pc = "await"
    /\ call' = [call EXCEPT
          ![c].pc = "closing",
          ![c].held = fetch_github_artifacts(Disk, Current(c), rm, rc)]
    /\ UNCHANGED <<csv, manifestFile, catalogFile, metaFile, now, last, started>>
    /\ UNCHANGED beside_calls

\* The session is closed; refresh_cache goes on with what the fetch held.
SessionClosed(c) ==
    /\ call[c].pc = "closing"
    /\ Completed(c, call[c].held)

\* The remote files as each caller's requests find them.
VersionSeenBy(c) == IF c = 1 THEN "v1" ELSE "v2"
Settled(c) ==
    \E rm, rc \in {TimedOut, [exc |-> FALSE, status |-> 200,
                               length |-> NoHeader, body |-> VersionSeenBy(c)]} :
        FetchSettled(c, rm, rc)

RefreshA(c) ==
    \E force \in BOOLEAN :
        Enter(c, "refresh", [kind |-> "str", val |-> <<"a-models">>], force)

\* Nothing is cached when the two callers start.
ConcurrentInit ==
    /\ Init
    /\ csv # <<>>
    /\ \A x \in Repos : manifestFile[x] = Absent

ConcurrentNext ==
    \/ \E c \in Callers : RefreshA(c)
    \/ \E c \in Callers : RefreshLoop(c)
    \/ \E c \in Callers : Settled(c)
    \/ \E c \in Callers : SessionClosed(c)
    \/ \E c \in Callers : Return(c)
    \/ Tick

ConcurrentSpec == ConcurrentInit /\ [][ConcurrentNext]_vars

\* Refreshes on a cache directory in which the write of one file raises
\* (the disk is full, the file is not writable).
WriteFaults == {{}, {"manifest"}, {"catalog"}, {"sidecar"}}
WriteFaultInit ==
    /\ Leftover
    /\ now = 0
    /\ max_projects = MAX_PROJECTS
    /\ call = [c \in Callers |-> Idle]
    /\ last = [x \in Repos |-> Untouched]
    /\ started = 0
    /\ org = <<"a-models", "b-models", OtherRepo>>
    /\ faults \in WriteFaults
    /\ disc = NoRun
    /\ parse = NoParse
    /\ probe = NoProbe
    /\ query = NoQuery

WriteFaultNext ==
    \/ \E c \in Sequential : RefreshOne(c)
    \/ \E c \in Sequential : RefreshLoop(c)
    \/ \E c \in Sequential : FetchedOrTimedOut(c)
    \/ \E c \in Sequential : Return(c)
    \/ Tick

WriteFaultSpec == WriteFaultInit /\ [][WriteFaultNext]_vars

\* ------------------------------------------- the probe, request by request
\* What the first request of a probe can meet, and what its retry can.
FirstResponses ==
    {[exc |-> TRUE, status |-> NoStatus, rate_limited |-> FALSE, reset |-> FALSE],
     [exc |-> FALSE, status |-> 200, rate_limited |-> FALSE, reset |-> FALSE],
     [exc |-> FALSE, status |-> 404, rate_limited |-> FALSE, reset |-> FALSE],
     [exc |-> FALSE, status |-> 403, rate_limited |-> FALSE, reset |-> FALSE],
     [exc |-> FALSE, status |-> 403, rate_limited |-> TRUE, reset |-> FALSE],
     [exc |-> FALSE, status |-> 403, rate_limited |-> TRUE, reset |-> TRUE]}
RetryResponses ==
    {[exc |-> TRUE, status |-> NoStatus], [exc |-> FALSE, status |-> 200],
     [exc |-> FALSE, status |-> 404], [exc |-> FALSE, status |-> 403]}

\* session.get(url): the first request of _check_docs_branch.  After a
\* rate-limit 403 with a known reset time the coroutine sleeps; after
\* anything else it returns.
ProbeRequest(first) ==
    /\ disc.pc = "probe"
    /\ probe.pc = "idle"
    /\ IF ~first.exc /\ first.status = 403 /\ first.rate_limited /\ first.reset
       THEN /\ probe' = [pc |-> "wait", requests |-> 1, waits |-> 0,
                         last |-> first.status, raised |-> FALSE]
            /\ UNCHANGED <<csv, now, started, org, disc>>
            /\ UNCHANGED beside_discovery
       ELSE /\ probe' = [pc |-> "idle", requests |-> 1, waits |-> 0,
                         last |-> first.status, raised |-> first.exc]
            /\ Probed(Probe(first.exc, first.status, first.rate_limited,
                            first.reset, FALSE, NoStatus))

\* asyncio.sleep(wait_seconds + 1), then the one retry and the return.
ProbeRetry(retry) ==
    /\ disc.pc = "probe"
    /\ probe.pc = "wait"
    /\ probe' = [pc |-> "idle", requests |-> probe.requests + 1,
                 waits |-> probe.waits + 1,
                 last |-> IF retry.exc THEN probe.last ELSE retry.status,
                 raised |-> retry.exc]
    /\ Probed(Probe(FALSE, 403, TRUE, TRUE, retry.exc, retry.status))

ProbeNext ==
    \/ DiscoverStart
    \/ ListPage
    \/ \E first \in FirstResponses : ProbeRequest(first)
    \/ \E retry \in RetryResponses : ProbeRetry(retry)

ProbeSpec == DiscoveryInit /\ [][ProbeNext]_vars

\* ------------------------------------------------------------ query layer
\* The two DataDiscoveryService classes: core/service.py behind the REST
\* endpoints and api/service.py behind the MCP tools.  Under the query
\* specifications a document is its parsed content and query.artifacts[x]
\* is the pair get_project_artifacts loads for x; a resource whose
\* artifacts cannot be loaded has no entry.  Strings that are
\* compared, searched or lower-cased are sequences of characters; fields a
\* handler copies without reading them (materialized, tags, path) are left
\* out.

\* str.lower()
Lower(str) ==
    [k \in 1..Len(str) |->
        CASE str[k] = "C" -> "c"
          [] str[k] = "E" -> "e"
          [] str[k] = "H" -> "h"
          [] str[k] = "L" -> "l"
          [] str[k] = "O" -> "o"
          [] str[k] = "R" -> "r"
          [] str[k] = "T" -> "t"
          [] OTHER -> str[k]]

\* a < b on str.  CodePoints are the characters in use, in code point order.
StrLess(a, b) ==
    LET CodePoints ==
            <<"-", ".", "C", "E", "O", "R", "_", "a", "b", "c", "d", "e",
              "f", "g", "h", "i", "j", "k", "l", "m", "n", "o", "p", "q",
              "r", "s", "t", "u", "v", "w", "x", "y", "z">>
        ord(ch) == CHOOSE k \in 1..Len(CodePoints) : CodePoints[k] = ch
        differ == {k \in 1..Min(Len(a), Len(b)) : a[k] # b[k]}
        first == CHOOSE k \in differ : \A j \in differ : k <= j
    IN IF differ = {} THEN Len(a) < Len(b)
       ELSE ord(a[first]) < ord(b[first])

\* a < b on tuples of str
RECURSIVE TupleLess(_, _)
TupleLess(a, b) ==
    IF a = <<>> \/ b = <<>> THEN a = <<>> /\ b # <<>>
    ELSE IF Head(a) = Head(b) THEN TupleLess(Tail(a), Tail(b))
    ELSE StrLess(Head(a), Head(b))

\* sub in str
Contains(sub, str) ==
    \E k \in 0..(Len(str) - Len(sub)) : SubSeq(str, k + 1, k + Len(sub)) = sub

\* str.endswith(suffix)
EndsWith(str, suffix) ==
    /\ Len(str) >= Len(suffix)
    /\ SubSeq(str, Len(str) - Len(suffix) + 1, Len(str)) = suffix

\* sorted(s, key=...): less holds the pairs <<x, y>> of elements of s such that
\* the key of x is below the key of y; elements of equal key keep their order.
Sorted(s, less) ==
    LET before(j, k) == \/ <<s[j], s[k]>> \in less
                        \/ <<s[k], s[j]>> \notin less /\ j < k
        place(k) == 1 + Cardinality({j \in 1..Len(s) : before(j, k)})
    IN [p \in 1..Len(s) |-> s[CHOOSE k \in 1..Len(s) : place(k) = p]]

\* The characters of a resource id.
Chars(resource_id) ==
    CASE resource_id = "a-models" -> <<"a", "-", "m", "o", "d", "e", "l", "s">>
      [] resource_id = "b-models" -> <<"b", "-", "m", "o", "d", "e", "l", "s">>
      [] resource_id = "c-models" -> <<"c", "-", "m", "o", "d", "e", "l", "s">>
      [] OTHER -> <<>>

\* Entries of manifest["nodes"], as (unique_id, node) in the order of the
\* dict; the columns of a node are a dict from column name to column.
NodePool ==
    LET Node(unique_id, resource_type, database, schema, name, fqn, cols) ==
            [unique_id |-> unique_id,
             info |-> [resource_type |-> resource_type,
                       database |-> database, schema |-> schema,
                       name |-> name, fqn |-> fqn,
                       relation_name |->
                           database \o <<".">> \o schema \o <<".">> \o name,
                       columns |-> [c \in cols |->
                                       [description |-> "about " \o c]]]]
    IN {Node(<<"m", "o", "d", "e", "l", ".", "p", ".", "f", "a", "c", "t", "_", "t", "x">>, "model", <<"e", "t", "h", "e", "r", "e", "u", "m">>, <<"c", "o", "r", "e">>, <<"f", "a", "c", "t", "_", "t", "x">>,
             <<<<"p">>, <<"g", "o", "l", "d">>, <<"f", "a", "c", "t", "_", "t", "x">>>>, {"a", "b"}),
        Node(<<"m", "o", "d", "e", "l", ".", "p", ".", "c", "o", "r", "e", "_", "_", "f", "a", "c", "t", "_", "t", "x">>, "model", <<"e", "t", "h", "e", "r", "e", "u", "m">>, <<"c", "o", "r", "e">>,
             <<"c", "o", "r", "e", "_", "_", "f", "a", "c", "t", "_", "t", "x">>, <<<<"p">>, <<"s", "i", "l", "v", "e", "r">>, <<"c", "o", "r", "e", "_", "_", "f", "a", "c", "t", "_", "t", "x">>>>, {"a"}),
        Node(<<"m", "o", "d", "e", "l", ".", "f", "s", "c", "_", "u", "t", "i", "l", "s", ".", "d", "i", "m", "_", "x">>, "model", <<"e", "t", "h", "e", "r", "e", "u", "m">>, <<"s", "c", "o", "r", "e", "s">>, <<"d", "i", "m", "_", "x">>,
             <<<<"f", "s", "c", "_", "u", "t", "i", "l", "s">>, <<"g", "o", "l", "d">>, <<"d", "i", "m", "_", "x">>>>, {}),
        Node(<<"m", "o", "d", "e", "l", ".", "p", ".", "d", "e", "f", "i", "_", "f", "a", "c", "t", "_", "t", "x">>, "model", <<"e", "t", "h", "e", "r", "e", "u", "m">>, <<"d", "e", "f", "i">>, <<"f", "a", "c", "t", "_", "t", "x">>,
             <<<<"p">>, <<"f", "a", "c", "t", "_", "t", "x">>>>, {"b"}),
        Node(<<"t", "e", "s", "t", ".", "p", ".", "f", "a", "c", "t", "_", "t", "x">>, "test", <<"e", "t", "h", "e", "r", "e", "u", "m">>, <<"c", "o", "r", "e">>, <<"f", "a", "c", "t", "_", "t", "x">>,
             <<<<"p">>, <<"f", "a", "c", "t", "_", "t", "x">>>>, {})}

\* project_manager.get_project_artifacts(resource_ids) as the service sees
\* it: the ids of the pairs loaded, in the order of the dict returned, or the
\* exception raised.  artifacts[x] is what the cache manager has or fetches
\* for x, NotLoaded when that fails.
NotLoaded == [raised |-> TRUE]
load_artifacts(d, artifacts, resource_ids) ==
    LET validated == validate_resource_ids(d, [kind |-> "list",
                                               val |-> resource_ids])
        asked == IF validated.ids = <<>> THEN list_project_ids(d)
                 ELSE validated.ids
        loaded == SelectSeq(asked, LAMBDA x : ~artifacts[x].raised)
    IN IF ~validated.ok \/ loaded = <<>>
       THEN [raised |-> TRUE, ids |-> <<>>]
       ELSE [raised |-> FALSE, ids |-> loaded]

\* any(level in part.lower() for part in fqn) or level in schema.lower()
level_matches(level, model_info) ==
    \/ \E k \in 1..Len(model_info.fqn) :
        Contains(level, Lower(model_info.fqn[k]))
    \/ Contains(level, Lower(model_info.schema))

\* core/service.py
core_filter_models_by_criteria(models, schema, level, resource_id, show_details) ==
    LET matches(model_id, model_info) ==
            IF schema # <<>>
            THEN Lower(schema) = Lower(model_info.schema)
            ELSE IF level # <<>>
            THEN IF level \in {<<"b", "r", "o", "n", "z", "e">>, <<"s", "i", "l", "v", "e", "r">>}
                 THEN level_matches(level, model_info)
                 ELSE IF level = <<"g", "o", "l", "d">>
                 THEN ~Contains(<<"f", "s", "c", "_", "u", "t", "i", "l", "s">>, model_id)
                      /\ level_matches(level, model_info)
                 ELSE FALSE
            ELSE TRUE
        model_data(model_id, model_info) ==
            IF show_details
            THEN [name |-> model_info.name, database |-> model_info.database,
                  schema |-> model_info.schema,
                  relation_name |-> model_info.relation_name,
                  unique_id |-> model_id, fqn |-> model_info.fqn,
                  resource_id |-> resource_id]
            ELSE [name |-> model_info.name, database |-> model_info.database,
                  schema |-> model_info.schema,
                  relation_name |-> model_info.relation_name]
        kept == SelectSeq(models, LAMBDA n : n.info.resource_type = "model"
                                             /\ matches(n.unique_id, n.info))
        filtered_models == [k \in 1..Len(kept) |->
                               model_data(kept[k].unique_id, kept[k].info)]
    IN Sorted(filtered_models,
              {p \in Range(filtered_models) \X Range(filtered_models) :
                  TupleLess(<<p[1].schema, p[1].name>>,
                            <<p[2].schema, p[2].name>>)})

\* api/service.py
api_filter_models_by_criteria(models, schema, level, resource_id) ==
    LET matches(model_id, model_info) ==
            IF schema # <<>>
            THEN Contains(schema, Lower(model_info.schema))
            ELSE IF level # <<>>
            THEN IF level \in {<<"b", "r", "o", "n", "z", "e">>, <<"s", "i", "l", "v", "e", "r">>, <<"g", "o", "l", "d">>}
                 THEN level_matches(level, model_info)
                 ELSE FALSE
            ELSE FALSE
        model_data(model_id, model_info) ==
            [unique_id |-> model_id, name |-> model_info.name,
             schema |-> model_info.schema, database |-> model_info.database,
             fqn |-> model_info.fqn,
             relation_name |-> model_info.relation_name,
             resource_id |-> resource_id]
        kept == SelectSeq(models, LAMBDA n : n.info.resource_type = "model"
                                             /\ matches(n.unique_id, n.info))
        filtered_models == [k \in 1..Len(kept) |->
                               model_data(kept[k].unique_id, kept[k].info)]
    IN Sorted(filtered_models,
              {p \in Range(filtered_models) \X Range(filtered_models) :
                  TupleLess(<<p[1].schema, p[1].name>>,
                            <<p[2].schema, p[2].name>>)})

RECURSIVE Concat(_)
Concat(lists) ==
    IF lists = <<>> THEN <<>> ELSE Head(lists) \o Concat(Tail(lists))

\* key=lambda x: (x.get("resource_id", ""), x.get("schema", ""), x.get("name", ""))
SortKeyLess(x, y) ==
    LET key(e) ==
            <<IF "resource_id" \in DOMAIN e THEN Chars(e.resource_id)
              ELSE <<>>,
              e.schema, e.name>>
    IN TupleLess(key(x), key(y))

\* all_filtered_models[:limit] when truncated
Truncate(models, limit) ==
    IF Len(models) > limit THEN SubSeq(models, 1, limit) ELSE models

\* core/service.py.  resource_id is the list of ids asked for, a single id
\* being a list of one; None and "" are the empty sequence.
core_get_models(d, artifacts, schema, level, resource_id, limit, show_details) ==
    LET requested_resources ==
            IF resource_id # <<>> THEN resource_id ELSE list_project_ids(d)
        loads(x) == x \in Range(load_artifacts(d, artifacts, <<x>>).ids)
        successful == SelectSeq(requested_resources, loads)
        failed_resources == SelectSeq(requested_resources,
                                      LAMBDA x : ~loads(x))
        collected ==
            Concat([k \in 1..Len(successful) |->
                       core_filter_models_by_criteria(
                           artifacts[successful[k]].manifest.nodes,
                           schema, level, successful[k], show_details)])
        all_filtered_models ==
            Sorted(collected, {p \in Range(collected) \X Range(collected) :
                                  SortKeyLess(p[1], p[2])})
    IN IF schema = <<>> /\ level = <<>> /\ resource_id = <<>>
       THEN [success |-> FALSE, error |-> "required", data |-> <<>>]
       ELSE IF level # <<>> /\ level \notin {<<"b", "r", "o", "n", "z", "e">>, <<"s", "i", "l", "v", "e", "r">>, <<"g", "o", "l", "d">>}
       THEN [success |-> FALSE, error |-> "level", data |-> <<>>]
       ELSE IF successful = <<>>
       THEN [success |-> FALSE, error |-> "no valid resources", data |-> <<>>]
       ELSE [success |-> TRUE,
             data |-> Truncate(all_filtered_models, limit),
             count |-> Len(Truncate(all_filtered_models, limit)),
             truncated |-> Len(all_filtered_models) > limit,
             failed_resources |-> failed_resources]

\* Variant: one resource that fails to load fails the whole call.
api_get_models_aborting(d, artifacts, schema, level, resource_id, limit) ==
    LET all_resources == list_project_ids(d)
        requested_resources ==
            IF resource_id # <<>> THEN resource_id ELSE all_resources
        loads(x) == x \in Range(load_artifacts(d, artifacts, <<x>>).ids)
        successful == SelectSeq(requested_resources, loads)
        failed_resources == SelectSeq(requested_resources,
                                      LAMBDA x : ~loads(x))
        collected ==
            Concat([k \in 1..Len(successful) |->
                       api_filter_models_by_criteria(
                           artifacts[successful[k]].manifest.nodes,
                           schema, level, successful[k])])
        all_filtered_models ==
            Sorted(collected, {p \in Range(collected) \X Range(collected) :
                                  SortKeyLess(p[1], p[2])})
        nothing(failed_projects, error) ==
            [models |-> <<>>, total_found |-> 0, returned_count |-> 0,
             truncated |-> FALSE, successful_projects |-> <<>>,
             failed_projects |-> failed_projects, error |-> error]
    IN IF resource_id = <<>> /\ Len(all_resources) > max_projects
       THEN nothing(<<>>, "too many resources")
       ELSE IF successful = <<>> \/ failed_resources # <<>>
       THEN nothing(failed_resources,
                    IF failed_resources # <<>> THEN "no valid resources"
                    ELSE "no artifacts loaded")
       ELSE [models |-> Truncate(all_filtered_models, limit),
             total_found |-> Len(all_filtered_models),
             returned_count |-> Len(Truncate(all_filtered_models, limit)),
             truncated |-> Len(all_filtered_models) > limit,
             successful_projects |-> successful,
             failed_projects |-> failed_resources]

\* api/service.py
api_get_models(d, artifacts, schema, level, resource_id, limit) ==
    LET all_resources == list_project_ids(d)
        requested_resources ==
            IF resource_id # <<>> THEN resource_id ELSE all_resources
        loads(x) == x \in Range(load_artifacts(d, artifacts, <<x>>).ids)
        successful == SelectSeq(requested_resources, loads)
        failed_resources == SelectSeq(requested_resources,
                                      LAMBDA x : ~loads(x))
        collected ==
            Concat([k \in 1..Len(successful) |->
                       api_filter_models_by_criteria(
                           artifacts[successful[k]].manifest.nodes,
                           schema, level, successful[k])])
        all_filtered_models ==
            Sorted(collected, {p \in Range(collected) \X Range(collected) :
                                  SortKeyLess(p[1], p[2])})
        nothing(failed_projects, error) ==
            [models |-> <<>>, total_found |-> 0, returned_count |-> 0,
             truncated |-> FALSE, successful_projects |-> <<>>,
             failed_projects |-> failed_projects, error |-> error]
    IN IF resource_id = <<>> /\ Len(all_resources) > max_projects
       THEN nothing(<<>>, "too many resources")
       ELSE IF successful = <<>>
       THEN nothing(failed_resources,
                    IF failed_resources # <<>> THEN "no valid resources"
                    ELSE "no artifacts loaded")
       ELSE [models |-> Truncate(all_filtered_models, limit),
             total_found |-> Len(all_filtered_models),
             returned_count |-> Len(Truncate(all_filtered_models, limit)),
             truncated |-> Len(all_filtered_models) > limit,
             successful_projects |-> successful,
             failed_projects |-> failed_resources]

\* What the cache manager may have for the resources: nothing for c-models,
\* nothing or a pair for the others.  A manifest has up to MaxNodes distinct
\* nodes, in any order; the catalogs either have no entry for a node or
\* list, for every node, the columns named in columns.
Artifacts(columns) ==
    LET Manifests ==
            {[nodes |-> nodes] :
                nodes \in {s \in SeqsUpTo(NodePool, MaxNodes) :
                              \A j, k \in 1..Len(s) : j # k => s[j] # s[k]}}
        Catalog(m) ==
            [nodes |->
                [id \in IF columns = {} THEN {}
                        ELSE {m.nodes[k].unique_id : k \in 1..Len(m.nodes)} |->
                    [columns |-> [c \in columns |->
                                     [type |-> IF c = "a" THEN "NUMBER"
                                               ELSE "VARCHAR"]]]]]
        Pairs == {[raised |-> FALSE, manifest |-> m, catalog |-> Catalog(m)] :
                     m \in Manifests}
    IN {artifacts \in [Repos -> {NotLoaded} \cup Pairs] :
           artifacts["c-models"] = NotLoaded}

\* The filters a caller passes: none, a schema in either case, a level, an
\* unknown level, and both.
Filters ==
    {[schema |-> <<>>, level |-> <<>>], [schema |-> <<"c", "o", "r", "e">>, level |-> <<>>],
     [schema |-> <<"C", "O", "R", "E">>, level |-> <<>>], [schema |-> <<>>, level |-> <<"g", "o", "l", "d">>],
     [schema |-> <<>>, level |-> <<"p", "l", "a", "t", "i", "n", "u", "m">>],
     [schema |-> <<"c", "o", "r", "e">>, level |-> <<"g", "o", "l", "d">>]}
ResourceLists == {<<>>, <<"a-models">>, <<"b-models", "a-models">>}

\* The registry lists a-models and b-models; each has a cached pair or none.
QueryInit(column_sets) ==
    /\ csv = <<Row("a-models", "True", 0, "success", ""),
               Row("b-models", "True", 0, "success", ""),
               Row("c-models", "False", NoTime, "", "")>>
    /\ manifestFile = [x \in Repos |-> Absent]
    /\ catalogFile = [x \in Repos |-> Absent]
    /\ metaFile = [x \in Repos |-> NoMeta]
    /\ now = 0
    /\ max_projects \in {MAX_PROJECTS, Cardinality(Repos) - 1}
    /\ call = [c \in Callers |-> Idle]
    /\ last = [x \in Repos |-> Untouched]
    /\ started = 0
    /\ org = <<>>
    /\ faults = {}
    /\ disc = NoRun
    /\ parse = NoParse
    /\ probe = NoProbe
    /\ \E columns \in column_sets : \E artifacts \in Artifacts(columns) :
        query = [pc |-> "idle", artifacts |-> artifacts]

beside_query ==
    <<csv, manifestFile, catalogFile, metaFile, now, call, last, started,
      max_projects, org, faults, disc, parse, probe>>

CoreGetModels ==
    /\ query.pc = "idle"
    /\ \E filter \in Filters, resource_id \in ResourceLists,
          limit \in 1..MaxLimit, show_details \in BOOLEAN :
        query' = [pc |-> "done", artifacts |-> query.artifacts,
                  service |-> "core", op |-> "get_models",
                  request |-> [schema |-> filter.schema, level |-> filter.level,
                               resource_id |-> resource_id, limit |-> limit,
                               show_details |-> show_details],
                  response |-> core_get_models(Disk, query.artifacts, filter.schema,
                                   filter.level, resource_id, limit,
                                   show_details)]
    /\ UNCHANGED beside_query

ApiGetModels ==
    /\ query.pc = "idle"
    /\ \E filter \in Filters, resource_id \in ResourceLists,
          limit \in 1..MaxLimit :
        query' = [pc |-> "done", artifacts |-> query.artifacts,
                  service |-> "api", op |-> "get_models",
                  request |-> [schema |-> filter.schema, level |-> filter.level,
                               resource_id |-> resource_id, limit |-> limit],
                  response |-> api_get_models(Disk, query.artifacts, filter.schema,
                                   filter.level, resource_id, limit)]
    /\ UNCHANGED beside_query

GetModelsNext == CoreGetModels \/ ApiGetModels
GetModelsSpec == QueryInit({{}}) /\ [][GetModelsNext]_vars

\* ------------------------------------------------------------ model details
\* str.split(sep)[-1]
RECURSIVE LastPart(_, _)
LastPart(str, sep) ==
    LET at == {k \in 1..(Len(str) - Len(sep) + 1) :
                  SubSeq(str, k, k + Len(sep) - 1) = sep}
        first == CHOOSE k \in at : \A j \in at : k <= j
    IN IF at = {} THEN str
       ELSE LastPart(SubSeq(str, first + Len(sep), Len(str)), sep)

\* Variant: a column the manifest does not describe is left out.
extract_model_columns_described_only(model_node, catalog_node) ==
    [c \in DOMAIN model_node.columns |->
        IF c \in DOMAIN catalog_node.columns
        THEN [name |-> c, description |-> model_node.columns[c].description,
              data_type |-> "None", type |-> catalog_node.columns[c].type]
        ELSE [name |-> c, description |-> model_node.columns[c].description,
              data_type |-> "None"]]

\* A catalog_node of {} is [columns |-> <<>>]; the columns of the manifest
\* carry no data_type.
extract_model_columns(model_node, catalog_node) ==
    LET manifest_columns == model_node.columns
        catalog_columns == catalog_node.columns
        columns == [c \in DOMAIN manifest_columns |->
                       [name |-> c,
                        description |-> manifest_columns[c].description,
                        data_type |-> "None"]]
    IN [c \in DOMAIN columns \cup DOMAIN catalog_columns |->
           IF c \notin DOMAIN catalog_columns THEN columns[c]
           ELSE IF c \in DOMAIN columns
           THEN [name |-> c, description |-> columns[c].description,
                 data_type |-> columns[c].data_type,
                 type |-> catalog_columns[c].type]
           ELSE [name |-> c, type |-> catalog_columns[c].type,
                 description |-> "", data_type |-> catalog_columns[c].type]]

\* catalog.get("nodes", {}).get(unique_id, {})
catalog_node_of(catalog, unique_id) ==
    IF unique_id \in DOMAIN catalog.nodes THEN catalog.nodes[unique_id]
    ELSE [columns |-> <<>>]

\* api/service.py
api_format_model_details(model_node, unique_id, catalog, resource_id) ==
    [unique_id |-> unique_id, name |-> model_node.name,
     schema |-> model_node.schema, database |-> model_node.database,
     relation_name |-> model_node.relation_name, fqn |-> model_node.fqn,
     resource_id |-> resource_id,
     columns |-> extract_model_columns(model_node,
                     catalog_node_of(catalog, unique_id))]

\* core/service.py
core_format_model_details(model_node, unique_id, catalog, resource_id, show_details) ==
    LET columns == extract_model_columns(model_node,
                       catalog_node_of(catalog, unique_id))
    IN IF show_details
       THEN [name |-> model_node.name, database |-> model_node.database,
             schema |-> model_node.schema,
             relation_name |-> model_node.relation_name,
             columns |-> columns, unique_id |-> unique_id,
             fqn |-> model_node.fqn, resource_id |-> resource_id]
       ELSE [name |-> model_node.name, database |-> model_node.database,
             schema |-> model_node.schema,
             relation_name |-> model_node.relation_name,
             columns |-> columns]

calculate_fqn_match_score(target_fqn, database, schema, model_name) ==
    LET target_parts == Split(Lower(target_fqn), ".")
        target_table == Lower(target_parts[Len(target_parts)])
        target_db == Lower(target_parts[1])
    IN (IF Len(target_parts) >= 2
           /\ Lower(schema) = target_parts[Len(target_parts) - 1]
        THEN 10 ELSE 0)
       + (IF Lower(model_name) = target_table THEN 10
          ELSE IF Contains(target_table, Lower(model_name)) THEN 5
          ELSE IF EndsWith(Lower(model_name), <<"_", "_">> \o target_table) THEN 8
          ELSE 0)
       + (IF Len(target_parts) # 3 THEN 0
          ELSE IF Lower(database) = target_db THEN 5
          ELSE IF Contains(target_db, Lower(database)) THEN 2
          ELSE 0)

\* Variant: the first candidate found is the best match.
best_match_first_found(matching_models) == matching_models[1]

\* matching_models.sort(key=lambda x: x["match_score"], reverse=True);
\* matching_models[0]
best_match(matching_models) ==
    Sorted(matching_models,
           {p \in Range(matching_models) \X Range(matching_models) :
               p[1].match_score > p[2].match_score})[1]

\* The candidates of an FQN search, in the order in which they are found.
fqn_matching_models(artifacts, ids, fqn) ==
    LET fqn_parts == Split(fqn, ".")
        target_table == fqn_parts[Len(fqn_parts)]
        target_schema == fqn_parts[Len(fqn_parts) - 1]
        matches(node_data) ==
            LET model_database == Lower(node_data.database)
                model_schema == Lower(node_data.schema)
                model_name == Lower(node_data.name)
                possible_table_names ==
                    {model_name,
                     IF Contains(<<"_", "_">>, model_name)
                     THEN LastPart(model_name, <<"_", "_">>) ELSE model_name,
                     SelectSeq(model_name, LAMBDA ch : ch # "_")}
            IN /\ node_data.resource_type = "model"
               /\ model_schema = Lower(target_schema)
               /\ Lower(target_table) \in {Lower(n) : n \in possible_table_names}
               /\ \/ Len(fqn_parts) = 2
                  \/ model_database = Lower(fqn_parts[1])
                  \/ Contains(Lower(fqn_parts[1]), model_database)
        of(proj_id) ==
            LET nodes == SelectSeq(artifacts[proj_id].manifest.nodes,
                                   LAMBDA n : matches(n.info))
            IN [k \in 1..Len(nodes) |->
                   [node_id |-> nodes[k].unique_id,
                    node_data |-> nodes[k].info,
                    catalog_data |->
                        catalog_node_of(artifacts[proj_id].catalog,
                                        nodes[k].unique_id),
                    project_id |-> proj_id,
                    match_score |->
                        calculate_fqn_match_score(fqn,
                            Lower(nodes[k].info.database),
                            Lower(nodes[k].info.schema),
                            Lower(nodes[k].info.name))]]
    IN Concat([k \in 1..Len(ids) |-> of(ids[k])])

\* api/service.py.  resource_id is the list of ids asked for, None being the
\* empty sequence.
api_search_by_fqn(d, artifacts, fqn, resource_id) ==
    LET loaded == load_artifacts(d, artifacts, resource_id)
        matching_models == fqn_matching_models(artifacts, loaded.ids, fqn)
        best == best_match(matching_models)
    IN IF Len(Split(fqn, ".")) \notin {2, 3} THEN [error |-> "invalid fqn"]
       ELSE IF loaded.raised THEN [error |-> "internal error"]
       ELSE IF matching_models = <<>> THEN [error |-> "no models found"]
       ELSE api_format_model_details(best.node_data, best.node_id,
                [nodes |-> [id \in {best.node_id} |-> best.catalog_data]],
                best.project_id)

\* project_manager.find_model_in_projects: the models found, or the
\* exception raised.
find_model_in_projects(d, artifacts, model_name, resource_ids) ==
    LET all_resources == list_project_ids(d)
        ids == IF resource_ids = <<>> THEN all_resources ELSE resource_ids
        validated == validate_resource_ids(d, [kind |-> "list", val |-> ids])
        loaded == load_artifacts(d, artifacts, validated.ids)
        of(project_id) ==
            LET nodes == SelectSeq(artifacts[project_id].manifest.nodes,
                             LAMBDA n : /\ n.info.resource_type = "model"
                                        /\ n.info.name = model_name)
            IN [k \in 1..Len(nodes) |->
                   [resource_id |-> project_id,
                    unique_id |-> nodes[k].unique_id,
                    manifest_data |-> nodes[k].info,
                    catalog_data |->
                        catalog_node_of(artifacts[project_id].catalog,
                                        nodes[k].unique_id)]]
    IN IF resource_ids = <<>> /\ Len(all_resources) > max_projects
       THEN [raised |-> TRUE, found |-> <<>>]
       ELSE IF ~validated.ok \/ loaded.raised
       THEN [raised |-> TRUE, found |-> <<>>]
       ELSE [raised |-> FALSE,
             found |-> Concat([k \in 1..Len(loaded.ids) |->
                                  of(loaded.ids[k])])]

\* The summary of a match when several models have the name.
match_summary(found_model) ==
    [unique_id |-> found_model.unique_id,
     resource_id |-> found_model.resource_id,
     schema |-> found_model.manifest_data.schema,
     database |-> found_model.manifest_data.database]

\* Variant: the first of several models found is returned in full.
api_get_model_by_id_first_of_many(d, artifacts, model_name, fqn, resource_id) ==
    LET search == find_model_in_projects(d, artifacts, model_name,
                                         resource_id)
        found_models == search.found
    IN IF model_name = <<>> /\ fqn = <<>> THEN [error |-> "required"]
       ELSE IF fqn # <<>>
       THEN api_search_by_fqn(d, artifacts, fqn, resource_id)
       ELSE IF search.raised THEN [error |-> "internal error"]
       ELSE IF found_models = <<>> THEN [error |-> "not found"]
       ELSE api_format_model_details(found_models[1].manifest_data,
                found_models[1].unique_id,
                [nodes |-> [id \in {found_models[1].unique_id} |->
                               found_models[1].catalog_data]],
                found_models[1].resource_id)

\* api/service.py, for lookups by FQN and by model name (unique_id and
\* table_name are None).
api_get_model_by_id(d, artifacts, model_name, fqn, resource_id) ==
    LET search == find_model_in_projects(d, artifacts, model_name,
                                         resource_id)
        found_models == search.found
    IN IF model_name = <<>> /\ fqn = <<>> THEN [error |-> "required"]
       ELSE IF fqn # <<>>
       THEN api_search_by_fqn(d, artifacts, fqn, resource_id)
       ELSE IF search.raised THEN [error |-> "internal error"]
       ELSE IF found_models = <<>> THEN [error |-> "not found"]
       ELSE IF Len(found_models) = 1
       THEN api_format_model_details(found_models[1].manifest_data,
                found_models[1].unique_id,
                [nodes |-> [id \in {found_models[1].unique_id} |->
                               found_models[1].catalog_data]],
                found_models[1].resource_id)
       ELSE [multiple_matches |-> TRUE,
             matches |-> [k \in 1..Len(found_models) |->
                             match_summary(found_models[k])]]

\* core/service.py, for lookups by model name (unique_id, table_name and fqn
\* are None).  A data of None is the empty sequence.
core_get_model_details(d, artifacts, model_name, resource_id, show_details) ==
    LET search == find_model_in_projects(d, artifacts, model_name,
                                         resource_id)
        found_models == search.found
    IN IF model_name = <<>>
       THEN [success |-> FALSE, error |-> "required", data |-> <<>>]
       ELSE IF search.raised
       THEN [success |-> FALSE, error |-> "internal error", data |-> <<>>]
       ELSE IF found_models = <<>>
       THEN [success |-> FALSE, error |-> "not found", data |-> <<>>]
       ELSE IF Len(found_models) = 1
       THEN [success |-> TRUE,
             data |-> core_format_model_details(
                          found_models[1].manifest_data,
                          found_models[1].unique_id,
                          [nodes |-> [id \in {found_models[1].unique_id} |->
                                         found_models[1].catalog_data]],
                          found_models[1].resource_id, show_details)]
       ELSE [success |-> FALSE, error |-> "multiple models", data |-> <<>>,
             multiple_matches |-> [k \in 1..Len(found_models) |->
                                      match_summary(found_models[k])]]

Fqns == {<<"e", "t", "h", "e", "r", "e", "u", "m", ".", "c", "o", "r", "e", ".", "f", "a", "c", "t", "_", "t", "x">>, <<"e", "t", "h", "e", "r", ".", "c", "o", "r", "e", ".", "f", "a", "c", "t", "_", "t", "x">>, <<"C", "O", "R", "E", ".", "f", "a", "c", "t", "_", "t", "x">>,
         <<"f", "a", "c", "t", "_", "t", "x">>}
ModelNames == {<<"f", "a", "c", "t", "_", "t", "x">>, <<"d", "i", "m", "_", "x">>}

ApiGetModelById ==
    /\ query.pc = "idle"
    /\ \E lookup \in ({<<>>} \X Fqns) \cup (ModelNames \X {<<>>}),
          resource_id \in ResourceLists :
        query' = [pc |-> "done", artifacts |-> query.artifacts,
                  service |-> "api", op |-> "get_model_by_id",
                  request |-> [model_name |-> lookup[1], fqn |-> lookup[2],
                               resource_id |-> resource_id],
                  response |-> api_get_model_by_id(Disk, query.artifacts,
                                   lookup[1], lookup[2], resource_id)]
    /\ UNCHANGED beside_query

CoreGetModelDetails ==
    /\ query.pc = "idle"
    /\ \E model_name \in ModelNames, resource_id \in ResourceLists,
          show_details \in BOOLEAN :
        query' = [pc |-> "done", artifacts |-> query.artifacts,
                  service |-> "core", op |-> "get_model_details",
                  request |-> [model_name |-> model_name, fqn |-> <<>>,
                               resource_id |-> resource_id,
                               show_details |-> show_details],
                  response |-> core_get_model_details(Disk, query.artifacts,
                                   model_name, resource_id, show_details)]
    /\ UNCHANGED beside_query

DetailsNext == ApiGetModelById \/ CoreGetModelDetails
DetailsSpec ==
    QueryInit({{}, {"a"}, {"a", "c"}}) /\ [][DetailsNext]_vars

\* ------------------------------------------------------------ descriptions
\* Entries of manifest["docs"], as (doc_id, doc) in the order of the dict.
\* Names of doc blocks are only compared for equality and are atoms.
DocPool ==
    LET Doc(doc_id, resource_type, name) ==
            [doc_id |-> doc_id,
             info |-> [resource_type |-> resource_type, name |-> name,
                       package_name |-> "p",
                       original_file_path |-> "models/" \o doc_id \o ".md",
                       block_contents |-> "contents of " \o doc_id]]
    IN {Doc("doc.p.tx_hash", "doc", "tx_hash"),
        Doc("doc.q.tx_hash", "doc", "tx_hash"),
        Doc("doc.p.TX_HASH", "doc", "TX_HASH"),
        Doc("macro.p.tx_hash", "macro", "tx_hash")}

\* "not resource_id": None, the empty string and the empty list.
Falsy(resource_id) ==
    \/ resource_id.kind = "none"
    \/ resource_id.val = <<>>
    \/ resource_id.kind = "str" /\ resource_id.val = <<"">>

\* The resources get_project_artifacts(resource_ids) tries to load: none
\* when the validation raises.
attempted(d, resource_ids) ==
    LET validated == validate_resource_ids(d, resource_ids)
    IN IF ~validated.ok THEN <<>>
       ELSE IF validated.ids = <<>> THEN list_project_ids(d)
       ELSE validated.ids

\* The doc blocks of the loaded projects that match, in the order searched.
matching_docs(artifacts, ids, doc_name, with_name) ==
    LET of(proj_id) ==
            LET docs == SelectSeq(artifacts[proj_id].manifest.docs,
                            LAMBDA e : /\ e.info.resource_type = "doc"
                                       /\ e.info.name = doc_name)
            IN [k \in 1..Len(docs) |->
                   IF with_name
                   THEN [project_id |-> proj_id, doc_id |-> docs[k].doc_id,
                         name |-> docs[k].info.name,
                         package_name |-> docs[k].info.package_name,
                         path |-> docs[k].info.original_file_path,
                         content |-> docs[k].info.block_contents]
                   ELSE [project_id |-> proj_id, doc_id |-> docs[k].doc_id,
                         package_name |-> docs[k].info.package_name,
                         path |-> docs[k].info.original_file_path,
                         content |-> docs[k].info.block_contents]]
    IN Concat([k \in 1..Len(ids) |-> of(ids[k])])

\* Variant: without resource_id every registered resource is searched.
api_get_description_searching_all(d, artifacts, doc_name, resource_id) ==
    LET loaded == load_artifacts(d, artifacts, resource_id.val)
        all_matching_docs == matching_docs(artifacts, loaded.ids, doc_name, FALSE)
    IN IF loaded.raised
       THEN [loads |-> attempted(d, resource_id),
             response |-> [error |-> "internal error"]]
       ELSE IF all_matching_docs = <<>>
       THEN [loads |-> attempted(d, resource_id),
             response |-> [error |-> "not found"]]
       ELSE [loads |-> attempted(d, resource_id),
             response |-> [doc_name |-> doc_name,
                           matches |-> all_matching_docs,
                           total_matches |-> Len(all_matching_docs)]]

\* api/service.py.  loads are the resources the call had the cache manager
\* load, response is what it returned.
api_get_description(d, artifacts, doc_name, resource_id) ==
    LET loaded == load_artifacts(d, artifacts, resource_id.val)
        all_matching_docs == matching_docs(artifacts, loaded.ids, doc_name, FALSE)
    IN IF Falsy(resource_id)
       THEN [loads |-> <<>>, response |-> [error |-> "resource_id is required"]]
       ELSE IF loaded.raised
       THEN [loads |-> attempted(d, resource_id),
             response |-> [error |-> "internal error"]]
       ELSE IF all_matching_docs = <<>>
       THEN [loads |-> attempted(d, resource_id),
             response |-> [error |-> "not found"]]
       ELSE [loads |-> attempted(d, resource_id),
             response |-> [doc_name |-> doc_name,
                           matches |-> all_matching_docs,
                           total_matches |-> Len(all_matching_docs)]]

\* core/service.py
core_get_description(d, artifacts, doc_name, resource_id) ==
    LET loaded == load_artifacts(d, artifacts, resource_id.val)
        all_matching_docs == matching_docs(artifacts, loaded.ids, doc_name, TRUE)
        failure(error) == [success |-> FALSE, error |-> error, data |-> <<>>]
    IN IF Falsy(resource_id)
       THEN [loads |-> <<>>, response |-> failure("resource_id is required")]
       ELSE IF loaded.raised
       THEN [loads |-> attempted(d, resource_id),
             response |-> failure("internal error")]
       ELSE IF all_matching_docs = <<>>
       THEN [loads |-> attempted(d, resource_id),
             response |-> failure("not found")]
       ELSE [loads |-> attempted(d, resource_id),
             response |-> [success |-> TRUE, data |-> all_matching_docs,
                           count |-> Len(all_matching_docs)]]

\* What the cache manager may have for the resources when doc blocks are
\* asked for: a manifest has up to MaxNodes distinct doc blocks.
DocArtifacts ==
    LET Manifests ==
            {[nodes |-> <<>>, docs |-> docs] :
                docs \in {s \in SeqsUpTo(DocPool, MaxNodes) :
                             \A j, k \in 1..Len(s) : j # k => s[j] # s[k]}}
        Pairs == {[raised |-> FALSE, manifest |-> m, catalog |-> [nodes |-> <<>>]] :
                     m \in Manifests}
    IN {artifacts \in [Repos -> {NotLoaded} \cup Pairs] :
           artifacts["c-models"] = NotLoaded}

\* The doc names and the resource scopes a caller passes.
DocNames == {"tx_hash", "__overview__"}
Scopes ==
    {[kind |-> "none", val |-> <<>>],
     [kind |-> "str", val |-> <<"">>],
     [kind |-> "str", val |-> <<"a-models">>],
     [kind |-> "list", val |-> <<>>],
     [kind |-> "list", val |-> <<"b-models">>],
     [kind |-> "list", val |-> <<"b-models", "a-models">>],
     [kind |-> "list", val |-> <<"c-models">>]}

DescriptionInit ==
    /\ csv = <<Row("a-models", "True", 0, "success", ""),
               Row("b-models", "True", 0, "success", ""),
               Row("c-models", "False", NoTime, "", "")>>
    /\ manifestFile = [x \in Repos |-> Absent]
    /\ catalogFile = [x \in Repos |-> Absent]
    /\ metaFile = [x \in Repos |-> NoMeta]
    /\ now = 0
    /\ max_projects \in {MAX_PROJECTS, Cardinality(Repos) - 1}
    /\ call = [c \in Callers |-> Idle]
    /\ last = [x \in Repos |-> Untouched]
    /\ started = 0
    /\ org = <<>>
    /\ faults = {}
    /\ disc = NoRun
    /\ parse = NoParse
    /\ probe = NoProbe
    /\ \E artifacts \in DocArtifacts :
        query = [pc |-> "idle", artifacts |-> artifacts]

ApiGetDescription ==
    /\ query.pc = "idle"
    /\ \E doc_name \in DocNames, resource_id \in Scopes :
        LET r == api_get_description(Disk, query.artifacts, doc_name, resource_id)
        IN query' = [pc |-> "done", artifacts |-> query.artifacts,
                     service |-> "api", op |-> "get_description",
                     request |-> [doc_name |-> doc_name,
                                  resource_id |-> resource_id],
                     loads |-> r.loads, response |-> r.response]
    /\ UNCHANGED beside_query

CoreGetDescription ==
    /\ query.pc = "idle"
    /\ \E doc_name \in DocNames, resource_id \in Scopes :
        LET r == core_get_description(Disk, query.artifacts, doc_name, resource_id)
        IN query' = [pc |-> "done", artifacts |-> query.artifacts,
                     service |-> "core", op |-> "get_description",
                     request |-> [doc_name |-> doc_name,
                                  resource_id |-> resource_id],
                     loads |-> r.loads, response |-> r.response]
    /\ UNCHANGED beside_query

DescriptionNext == ApiGetDescription \/ CoreGetDescription
DescriptionSpec == DescriptionInit /\ [][DescriptionNext]_vars

\* ---------------------------------------------------------------- resources
\* The records resource_registry.get_project_by_id returns, with the fields
\* get_resources reads; the aliases are the list split from the aliases
\* column.  A record the registry builds for a discovered repository has
\* lower-case columns; the last record is one as the tests of the service
\* give it.
ResourcePool ==
    {[id |-> "ethereum-models", blockchain |-> <<"e", "t", "h", "e", "r", "e", "u", "m">>, category |-> <<"e", "v", "m">>,
      aliases |-> <<<<"e", "t", "h", "e", "r", "e", "u", "m", "-", "m", "o", "d", "e", "l", "s">>, <<"e", "t", "h", "e", "r", "e", "u", "m">>, <<"e", "t", "h", "e", "r", "e", "u", "m", "_", "m", "o", "d", "e", "l", "s">>, <<"e", "t", "h">>>>,
      description |-> "dbt models for ethereum", location |-> "FlipsideCrypto/ethereum-models"],
     [id |-> "bitcoin-models", blockchain |-> <<"b", "i", "t", "c", "o", "i", "n">>, category |-> <<"l", "1">>,
      aliases |-> <<<<"b", "i", "t", "c", "o", "i", "n", "-", "m", "o", "d", "e", "l", "s">>, <<"b", "i", "t", "c", "o", "i", "n">>, <<"b", "i", "t", "c", "o", "i", "n", "_", "m", "o", "d", "e", "l", "s">>, <<"b", "t", "c">>>>,
      description |-> "dbt models for bitcoin", location |-> "FlipsideCrypto/bitcoin-models"],
     [id |-> "near-models", blockchain |-> <<"n", "e", "a", "r">>, category |-> <<"l", "1">>,
      aliases |-> <<<<"n", "e", "a", "r", "-", "m", "o", "d", "e", "l", "s">>, <<"n", "e", "a", "r">>, <<"n", "e", "a", "r", "_", "m", "o", "d", "e", "l", "s">>>>,
      description |-> "dbt models for near", location |-> "FlipsideCrypto/near-models"],
     [id |-> "proj1", blockchain |-> <<"e", "t", "h">>, category |-> <<"L", "1">>,
      aliases |-> <<>>,
      description |-> "desc1", location |-> "FlipsideCrypto/proj1"]}

project_by_id(id) == CHOOSE r \in ResourcePool : r.id = id

\* _analyze_blockchain_matches: the matches, whether the match is partial,
\* and the suggestions.
analyze_blockchain_matches(resources, blockchain_filter) ==
    LET wanted == Lower(blockchain_filter)
        resource_matches(resource) ==
            \/ Contains(wanted, Lower(resource.blockchain))
            \/ \E k \in 1..Len(resource.aliases) :
                   Contains(wanted, Lower(resource.aliases[k]))
        names ==
            {Lower(r.blockchain) : r \in Range(resources)}
            \cup UNION {{Lower(r.aliases[k]) : k \in 1..Len(r.aliases)} :
                           r \in Range(resources)}
        exact_matches == names \cap {wanted}
        matches == SelectSeq(resources, resource_matches)
        is_partial_match == Len(matches) > 1 /\ exact_matches = {}
    IN [matches |-> matches, is_partial_match |-> is_partial_match,
        suggested_terms |-> IF is_partial_match
                            THEN [k \in 1..Len(matches) |-> matches[k].id]
                            ELSE <<>>]

\* Variant: the category filter replaces the blockchain filter.
filter_resources_category_alone(resources, blockchain_filter, category_filter) ==
    LET analysed == analyze_blockchain_matches(resources, blockchain_filter)
        by_blockchain == IF blockchain_filter # <<>> THEN analysed.matches
                         ELSE resources
        filtered ==
            IF category_filter # <<>>
            THEN SelectSeq(resources,
                     LAMBDA r : Contains(Lower(category_filter), Lower(r.category)))
            ELSE by_blockchain
    IN [filtered |-> filtered,
        is_partial_blockchain_match |->
            blockchain_filter # <<>> /\ analysed.is_partial_match,
        blockchain_suggestions |->
            IF blockchain_filter # <<>> THEN analysed.suggested_terms ELSE <<>>]

\* _filter_resources
filter_resources(resources, blockchain_filter, category_filter) ==
    LET analysed == analyze_blockchain_matches(resources, blockchain_filter)
        by_blockchain == IF blockchain_filter # <<>> THEN analysed.matches
                         ELSE resources
        filtered ==
            IF category_filter # <<>>
            THEN SelectSeq(by_blockchain,
                     LAMBDA r : Contains(Lower(category_filter), Lower(r.category)))
            ELSE by_blockchain
    IN [filtered |-> filtered,
        is_partial_blockchain_match |->
            blockchain_filter # <<>> /\ analysed.is_partial_match,
        blockchain_suggestions |->
            IF blockchain_filter # <<>> THEN analysed.suggested_terms ELSE <<>>]

\* core/service.py get_resources.  registry is what the resource registry
\* answers during the call: list_project_ids raises or returns ids, and
\* get_project_by_id raises for the ids in failing.
core_get_resources(registry, show_details, blockchain_filter, category_filter) ==
    LET failure(error) == [success |-> FALSE, error |-> error, data |-> <<>>]
        project_ids == registry.ids
        loaded == SelectSeq(project_ids, LAMBDA id : id \notin registry.failing)
        all_resources == [k \in 1..Len(loaded) |-> project_by_id(loaded[k])]
        f == filter_resources(all_resources, blockchain_filter, category_filter)
        basic(resource) ==
            [id |-> resource.id, blockchain |-> resource.blockchain,
             description |-> resource.description, aliases |-> resource.aliases]
    IN IF registry.raised THEN failure("internal error")
       ELSE IF project_ids = <<>> THEN failure("No project resources found")
       ELSE IF all_resources = <<>>
       THEN failure("No resources loaded successfully")
       ELSE [success |-> TRUE,
             data |-> IF show_details THEN f.filtered
                      ELSE [k \in 1..Len(f.filtered) |-> basic(f.filtered[k])],
             total_count |-> Len(all_resources),
             filtered_count |-> Len(f.filtered),
             suggestions |-> IF f.is_partial_blockchain_match
                             THEN f.blockchain_suggestions ELSE <<>>]

\* What the registry may answer: up to MaxListed ids, some of which it has
\* no record for when asked.
Registries ==
    {[raised |-> TRUE, ids |-> <<>>, failing |-> {}]} \cup
    {[raised |-> FALSE, ids |-> ids, failing |-> failing] :
        ids \in {s \in SeqsUpTo({r.id : r \in ResourcePool}, MaxListed) :
                    \A j, k \in 1..Len(s) : j # k => s[j] # s[k]},
        failing \in SUBSET {"ethereum-models", "near-models"}}

\* The filters a caller passes; None and "" are the empty sequence.
BlockchainFilters == {<<>>, <<"e", "t", "h">>, <<"E", "T", "H">>, <<"b", "t", "c">>, <<"e">>}
CategoryFilters == {<<>>, <<"l", "1">>, <<"L", "1">>, <<"e", "v", "m">>, <<"l">>}

ResourcesInit ==
    /\ csv = <<>>
    /\ manifestFile = [x \in Repos |-> Absent]
    /\ catalogFile = [x \in Repos |-> Absent]
    /\ metaFile = [x \in Repos |-> NoMeta]
    /\ now = 0
    /\ max_projects = MAX_PROJECTS
    /\ call = [c \in Callers |-> Idle]
    /\ last = [x \in Repos |-> Untouched]
    /\ started = 0
    /\ org = <<>>
    /\ faults = {}
    /\ disc = NoRun
    /\ parse = NoParse
    /\ probe = NoProbe
    /\ \E registry \in Registries : query = [pc |-> "idle", registry |-> registry]

CoreGetResources ==
    /\ query.pc = "idle"
    /\ \E show_details \in BOOLEAN, blockchain_filter \in BlockchainFilters,
          category_filter \in CategoryFilters :
        query' = [pc |-> "done", registry |-> query.registry,
                  service |-> "core", op |-> "get_resources",
                  request |-> [show_details |-> show_details,
                               blockchain_filter |-> blockchain_filter,
                               category_filter |-> category_filter],
                  response |-> core_get_resources(query.registry, show_details,
                                   blockchain_filter, category_filter)]
    /\ UNCHANGED beside_query

ResourcesSpec == ResourcesInit /\ [][CoreGetResources]_vars

\* ------------------------------------------------- refresh after a failure
\* A cache whose catalog.json was cut short while it was rewritten in place
\* (_cache_artifacts opens the file with 'w' and the dump did not finish):
\* the sidecar of the earlier, successful caching is still there and fresh.
Torn == [m |-> "v1", c |-> Corrupt, meta |-> Meta(0, "success", NoError)]

\* Calls on a cache directory in which a-models has a fresh cache, whole or
\* torn, and b-models none or one of a failed refresh.
RetryInit ==
    /\ \E left_a \in {Cached, Torn}, left_b \in {NoCache, Unrecorded} :
        /\ csv = <<InitRow("a-models", "True", left_a.meta),
                   InitRow("b-models", "True", left_b.meta),
                   InitRow("c-models", "False", NoCache.meta)>>
        /\ manifestFile = [x \in Repos |->
              IF x = "a-models" THEN left_a.m
              ELSE IF x = "b-models" THEN left_b.m ELSE Absent]
        /\ catalogFile = [x \in Repos |->
              IF x = "a-models" THEN left_a.c
              ELSE IF x = "b-models" THEN left_b.c ELSE Absent]
        /\ metaFile = [x \in Repos |->
              IF x = "a-models" THEN left_a.meta
              ELSE IF x = "b-models" THEN left_b.meta ELSE NoMeta]
    /\ now = 0
    /\ max_projects = MAX_PROJECTS
    /\ call = [c \in Callers |-> Idle]
    /\ last = [x \in Repos |-> Untouched]
    /\ started = 0
    /\ org = <<"a-models", "b-models", OtherRepo>>
    /\ faults = {}
    /\ disc = NoRun
    /\ parse = NoParse
    /\ probe = NoProbe
    /\ query = NoQuery

RetrySpec == RetryInit /\ [][Next]_vars

\* ---------------------------------------------------- a run to its return
\* One discovery run, alone.  Every request of the listing and every probe
\* is answered or raises (the client session has a total timeout), and the
\* sleep of a rate-limit wait ends: the steps of the run are taken as long
\* as they are due.  The repositories of the organisation change at will.
RunNext ==
    \/ disc.pc = "idle" /\ DiscoverStart
    \/ ListPage
    \/ ProbeDone
    \/ RepoCreated

RunSpec ==
    DiscoveryInit /\ [][RunNext]_vars /\ WF_vars(ListPage) /\ WF_vars(ProbeDone)

\* ------------------------------------------- a refresh during a discovery
\* discover_flipside_projects and refresh_cache are coroutines of one event
\* loop: while a run is suspended in a request of its listing or in a probe,
\* a refresh_cache called by another request is started and goes on, and
\* either may be the first to finish.  One refresh_cache is started per run,
\* and a run when no refresh_cache is under way.  The runs are those of the
\* refresh handler without resource_ids: skip_valid_cache is set and all
\* repositories are candidates.
Suspended == disc.pc \in {"list", "probe"}
DiscoverAll ==
    /\ DiscoverStart
    /\ disc'.skip_valid_cache
    /\ disc'.specific_projects = <<>>

InterleavedNext ==
    \/ Quiet /\ DiscoverAll
    \/ ListPage
    \/ ProbeDone
    \/ RepoCreated
    \/ \E c \in Sequential : Suspended /\ started < disc.runs /\ RefreshOne(c)
    \/ \E c \in Sequential : RefreshLoop(c)
    \/ \E c \in Sequential : FetchedOrTimedOut(c)
    \/ \E c \in Sequential : Return(c)

InterleavedSpec == DiscoveryInit /\ [][InterleavedNext]_vars

\* ================================================================ claims
\* Vocabulary of the claims, stated on the files themselves.
Loadable(x) == manifestFile[x] \in Docs /\ catalogFile[x] \in Docs
CachedPair(x) == <<manifestFile[x], catalogFile[x]>>
Fresh(x) ==
    /\ metaFile[x].state = "ok"
    /\ metaFile[x].status # "error"
    /\ now - metaFile[x].cached_at < CACHE_TTL_SECONDS
Known(x) ==
    \E j \in 1..Len(csv) :
        csv[j].resource_id = x /\ csv[j].has_docs_branch = "True"
RowsOf(x) == {j \in 1..Len(csv) : csv[j].resource_id = x}
CacheUnchanged(x) ==
    /\ manifestFile'[x] = manifestFile[x]
    /\ catalogFile'[x] = catalogFile[x]
    /\ metaFile'[x] = metaFile[x]
StoreRowUnchanged(x) ==
    /\ Len(csv') = Len(csv)
    /\ \A j \in RowsOf(x) : csv'[j] = csv[j]

\* Caller c is at resource x of its op call and takes a step.
Iterates(c, op, x) ==
    /\ InLoop(c, op)
    /\ Current(c) = x
    /\ call'[c] # call[c]
\* The fetch that caller c awaited for resource x of its op call ends.
Completes(c, op, x) ==
    /\ call[c].pc = "await"
    /\ call[c].op = op
    /\ Current(c) = x
    /\ call'[c] # call[c]

\* C1: for a validated resource whose manifest and catalog cache files both
\* exist and load, get_project_artifacts puts exactly that pair in its map
\* without starting a fetch and without changing the cache files, the
\* sidecar or the discovery store, whatever the age and the sidecar status;
\* the entry stays as it is until the call returns.
C1_CachedPairReturnedUntouched ==
    [][\A c \in Callers : \A x \in Repos :
        /\ (Iterates(c, "get", x) /\ Loadable(x)) =>
              /\ call'[c].pc = "loop"
              /\ call'[c].i = call[c].i + 1
              /\ x \in DOMAIN call'[c].artifacts
              /\ call'[c].artifacts[x] = CachedPair(x)
              /\ CacheUnchanged(x)
              /\ csv' = csv
        /\ (call[c].op = "get" /\ call[c].pc \in {"loop", "await"}
              /\ x \in DOMAIN call[c].artifacts) =>
              /\ x \in DOMAIN call'[c].artifacts
              /\ call'[c].artifacts[x] = call[c].artifacts[x]
      ]_vars

\* C1 witness: a get_project_artifacts call has returned a resource from a
\* cache that is not fresh and whose sidecar records an error.
C1_Witness ==
    \E c \in Callers : \E x \in Repos :
        /\ call[c].op = "get" /\ call[c].pc = "done"
        /\ call[c].outcome = "returned"
        /\ x \in DOMAIN call[c].artifacts
        /\ call[c].artifacts[x] = CachedPair(x)
        /\ last[x].read
        /\ metaFile[x].status = "error"
        /\ ~Fresh(x)

\* C2: in refresh_cache, when the fetch for a resource is attempted and
\* fails, the result for it is {success: False, action: "failed", error:
\* message}, its sidecar is written with status "error" and that message,
\* and its cache is not fresh afterwards, whether or not a cache existed.
C2_FailedFetchReportedFailed ==
    [][\A c \in Callers : \A x \in Repos :
        (Completes(c, "refresh", x) /\ last'[x].fetch = "failed") =>
            /\ x \in DOMAIN call'[c].refresh_results
            /\ call'[c].refresh_results[x].success = FALSE
            /\ call'[c].refresh_results[x].action = "failed"
            /\ call'[c].refresh_results[x].error # NoError
            /\ metaFile'[x].state = "ok"
            /\ metaFile'[x].status = "error"
            /\ metaFile'[x].error = call'[c].refresh_results[x].error
            /\ ~Fresh(x)'
      ]_vars

\* C3: a refresh_cache whose fetch for a resource fails leaves the content
\* of the cached manifest and catalog of that resource as before, and a
\* later get_project_artifacts returns the pair that was cached before the
\* failed fetch, if there was one.
C3_FailedFetchKeepsCachedPair ==
    [][\A c \in Callers : \A x \in Repos :
        /\ (Completes(c, "refresh", x) /\ last'[x].fetch = "failed") =>
              /\ manifestFile'[x] = manifestFile[x]
              /\ catalogFile'[x] = catalogFile[x]
              /\ last'[x].pair = IF Loadable(x) THEN CachedPair(x) ELSE NoPair
        /\ (Iterates(c, "get", x) /\ last[x].op = "refresh"
              /\ last[x].fetch = "failed" /\ last[x].pair # NoPair) =>
              /\ call'[c].pc = "loop"
              /\ x \in DOMAIN call'[c].artifacts
              /\ call'[c].artifacts[x] = last[x].pair
      ]_vars

\* C3 witness: the fetch of a refresh_cache failed for a resource that had a
\* cached pair, and a later get_project_artifacts returned that resource
\* from the cache.
C3_Witness ==
    \E c \in Callers : \E x \in Repos :
        /\ last[x].op = "refresh" /\ last[x].fetch = "failed"
        /\ last[x].pair # NoPair
        /\ last[x].read
        /\ call[c].op = "get" /\ call[c].pc = "done"
        /\ x \in DOMAIN call[c].artifacts
        /\ call[c].artifacts[x] = last[x].pair

\* In a finished get_project_artifacts call: the resource was left out
\* because neither the cache nor the source gave a pair.
Omitted(x) == last[x].op = "get" /\ last[x].action = "omitted" /\ ~last[x].read

\* C4: after validation, get_project_artifacts raises the batch error if and
\* only if no requested resource produced a pair; otherwise it returns the
\* map of exactly the resources that produced one, the others left out.
C4_BatchErrorIffNoArtifacts ==
    \A c \in Callers :
        (call[c].op = "get" /\ call[c].pc = "done" /\ call[c].validation.ok) =>
            LET requested == Range(call[c].ids)
                produced == {x \in requested : ~Omitted(x)}
            IN /\ call[c].outcome \in {"raised", "returned"}
               /\ call[c].outcome = "raised" <=> produced = {}
               /\ call[c].outcome = "returned" =>
                     /\ DOMAIN call[c].artifacts = produced
                     /\ \A x \in produced :
                            Loadable(x) /\ call[c].artifacts[x] = CachedPair(x)

\* C4 witness: a get_project_artifacts call returned a map with one
\* resource while another requested resource was left out.
C4_Witness ==
    \E c \in Callers : \E x, y \in Repos :
        /\ call[c].op = "get" /\ call[c].pc = "done"
        /\ call[c].outcome = "returned"
        /\ x \in Range(call[c].ids) /\ y \in Range(call[c].ids)
        /\ x \in DOMAIN call[c].artifacts
        /\ y \notin DOMAIN call[c].artifacts
        /\ Omitted(y)

\* The refresh_cache call before this one ran with force=False and handled
\* resource x less than a TTL ago.
JustRefreshedUnforced(x) ==
    /\ last[x].skipped \/ (last[x].op = "refresh" /\ ~last[x].force)
    /\ now - last[x].at < CACHE_TTL_SECONDS
\* Caller c's refresh_cache reports "skipped" for x in this step.
Skips(c, x) ==
    /\ call'[c].pc = "loop"
    /\ call'[c].i = call[c].i + 1
    /\ x \in DOMAIN call'[c].refresh_results
    /\ call'[c].refresh_results[x] = Result(TRUE, "skipped", NoError)

\* C5 as claimed: refresh_cache(force=False) called twice in succession with
\* no TTL elapsed in between reports "skipped" in the second call for every
\* resource, whatever the outcome of the first call for it.
C5_SecondRefreshSkipsAll ==
    [][\A c \in Callers : \A x \in Repos :
        (Iterates(c, "refresh", x) /\ ~call[c].force
            /\ JustRefreshedUnforced(x)) => Skips(c, x)
      ]_vars

\* C5 amended: the second of two successive refresh_cache(force=False) calls
\* with no TTL elapsed in between reports "skipped" for every resource for
\* which the first call reported "refreshed".
C5_SecondRefreshSkipsRefreshed ==
    [][\A c \in Callers : \A x \in Repos :
        (Iterates(c, "refresh", x) /\ ~call[c].force
            /\ JustRefreshedUnforced(x)
            /\ ~last[x].skipped /\ last[x].action = "refreshed") => Skips(c, x)
      ]_vars

\* C5 witness: a resource refreshed by a refresh_cache(force=False) was
\* skipped by the next one.
C5_Witness ==
    \E c \in Callers : \E x \in Repos :
        /\ last[x].op = "refresh" /\ ~last[x].force
        /\ last[x].action = "refreshed"
        /\ last[x].skipped
        /\ call[c].op = "refresh" /\ ~call[c].force /\ call[c].pc = "done"
        /\ x \in DOMAIN call[c].refresh_results
        /\ call[c].refresh_results[x].action = "skipped"

\* C6: refresh_cache with force=False gives a resource whose cache is fresh
\* {success: True, action: "skipped", error: None} without a fetch and
\* without a write: manifest, catalog, sidecar and store row stay as they
\* are.  With force=True a fetch is started even when the cache is fresh.
C6_FreshSkippedUnlessForced ==
    [][\A c \in Callers : \A x \in Repos :
        /\ (Iterates(c, "refresh", x) /\ ~call[c].force /\ Fresh(x)) =>
              /\ Skips(c, x)
              /\ CacheUnchanged(x)
              /\ StoreRowUnchanged(x)
        /\ (Iterates(c, "refresh", x) /\ call[c].force /\ Known(x)) =>
              /\ call'[c].pc = "await"
              /\ call'[c].i = call[c].i
      ]_vars

\* C6 witness: a forced refresh_cache is fetching for a resource whose cache
\* is fresh, after an unforced one skipped that resource.
C6_Witness ==
    \E c \in Callers : \E x \in Repos :
        /\ last[x].skipped
        /\ Fresh(x)
        /\ call[c].op = "refresh" /\ call[c].force /\ call[c].pc = "await"
        /\ Current(c) = x

\* C7: once validation has passed, refresh_cache does not raise: it returns
\* a map with one entry for each resource id of the validated or expanded
\* list, each with an action among "skipped", "refreshed", "failed" and with
\* success = False exactly when the action is "failed"; while it runs, every
\* resource before the current one has its entry, whatever failed before.
C7_RefreshReturnsEntryPerResource ==
    \A c \in Callers :
        (call[c].op = "refresh" /\ call[c].validation.ok) =>
            /\ call[c].pc = "done" => call[c].outcome = "returned"
            /\ call[c].pc = "done" => call[c].i = Len(call[c].ids) + 1
            /\ DOMAIN call[c].refresh_results =
                   {call[c].ids[j] : j \in 1..(call[c].i - 1)}
            /\ \A x \in DOMAIN call[c].refresh_results :
                  /\ call[c].refresh_results[x].action
                         \in {"skipped", "refreshed", "failed"}
                  /\ call[c].refresh_results[x].success = FALSE
                         <=> call[c].refresh_results[x].action = "failed"

\* C7 witness: a refresh_cache returned with a failed resource followed by
\* a resource that was refreshed.
C7_Witness ==
    \E c \in Callers :
        /\ call[c].op = "refresh" /\ call[c].pc = "done"
        /\ call[c].outcome = "returned"
        /\ Len(call[c].ids) = 2
        /\ call[c].refresh_results[call[c].ids[1]].action = "failed"
        /\ call[c].refresh_results[call[c].ids[2]].action = "refreshed"

\* C8: the freshness check, of the cache manager and of discovery, is true
\* for a resource if and only if its sidecar exists and is readable, its
\* status is not "error", and now - cached_at is strictly below the TTL.
C8_FreshIffReadableNoErrorWithinTtl ==
    \A x \in Repos :
        /\ is_cache_valid(Disk, x, now) <=> Fresh(x)
        /\ discovery_is_cache_valid(Disk, x, now) <=> Fresh(x)
        /\ metaFile[x].state \in {Absent, Corrupt} => ~is_cache_valid(Disk, x, now)

\* C8 witness: a refresh_cache(force=False) went to the source for a
\* resource whose sidecar records success with an age equal to the TTL.
C8_Witness ==
    \E c \in Callers : \E x \in Repos :
        /\ metaFile[x].state = "ok" /\ metaFile[x].status = "success"
        /\ now - metaFile[x].cached_at = CACHE_TTL_SECONDS
        /\ call[c].op = "refresh" /\ ~call[c].force /\ call[c].pc = "await"
        /\ Current(c) = x

\* C9: whenever refresh_cache reports "refreshed" for a resource, the cached
\* manifest and catalog are the pair obtained from the source during that
\* call and the sidecar has status "success" with cached_at set during the
\* call, so that the cache is fresh; the next get_project_artifacts returns
\* that pair.
C9_RefreshedMeansSourcePairCached ==
    [][\A c \in Callers : \A x \in Repos :
        /\ (Completes(c, "refresh", x)
              /\ x \in DOMAIN call'[c].refresh_results
              /\ call'[c].refresh_results[x].action = "refreshed") =>
              /\ last'[x].fetch = "ok"
              /\ CachedPair(x)' = last'[x].pair
              /\ metaFile'[x] = Meta(now, "success", NoError)
              /\ Fresh(x)'
        /\ (Iterates(c, "get", x) /\ last[x].action = "refreshed"
              /\ last[x].fetch = "ok") =>
              /\ call'[c].pc = "loop"
              /\ x \in DOMAIN call'[c].artifacts
              /\ call'[c].artifacts[x] = last[x].pair
      ]_vars

\* C10: get_project_artifacts goes to the source for a resource only when
\* no loadable cache pair exists for it; when that fetch succeeds the pair
\* is in the cache with a "success" sidecar when the iteration ends, and a
\* second get_project_artifacts returns the same pair without a fetch.
C10_InitialFetchPersisted ==
    [][\A c \in Callers : \A x \in Repos :
        /\ (Iterates(c, "get", x) /\ call'[c].pc = "await") => ~Loadable(x)
        /\ (Completes(c, "get", x) /\ last'[x].fetch = "ok") =>
              /\ last'[x].action = "fetched"
              /\ Loadable(x)'
              /\ CachedPair(x)' = last'[x].pair
              /\ metaFile'[x] = Meta(now, "success", NoError)
              /\ x \in DOMAIN call'[c].artifacts
              /\ call'[c].artifacts[x] = last'[x].pair
        /\ (Iterates(c, "get", x) /\ last[x].op = "get"
              /\ last[x].action = "fetched") =>
              /\ call'[c].pc = "loop"
              /\ x \in DOMAIN call'[c].artifacts
              /\ call'[c].artifacts[x] = last[x].pair
              /\ CacheUnchanged(x)
      ]_vars

\* C10 witness: a get_project_artifacts fetched a resource from the source
\* and a second one returned it from the cache.
C10_Witness ==
    \E c \in Callers : \E x \in Repos :
        /\ last[x].op = "get" /\ last[x].action = "fetched"
        /\ last[x].fetch = "ok"
        /\ last[x].read
        /\ call[c].op = "get" /\ call[c].pc = "done"
        /\ x \in DOMAIN call[c].artifacts
        /\ call[c].artifacts[x] = last[x].pair

\* ------------------------------------------------------------ validation
\* Vocabulary: the ids the registry knows, and a call that is rejected on
\* entry with an error of the given kinds whose message lists exactly those
\* ids: the caller is done without having awaited a fetch, and the cache
\* files, the sidecars, the store and the history are as before.
KnownIds ==
    {csv[j].resource_id : j \in {k \in 1..Len(csv) : csv[k].has_docs_branch = "True"}}
ListInputs == {r \in Inputs : r.kind = "list"}
\* Caller c enters a call; the call is made with resource_ids = r.
Enters(c) == call[c].pc \in {"idle", "done"} /\ call'[c] # call[c]
Calls(c, r) == Enter(c, call'[c].op, r, call'[c].force)
Rejected(c, kinds) ==
    /\ call'[c].pc = "done"
    /\ call'[c].outcome = "raised"
    /\ call'[c].validation.kind \in kinds
    /\ Range(call'[c].validation.available) = KnownIds
    /\ UNCHANGED <<csv, manifestFile, catalogFile, metaFile, last>>
HasUnknownId(r) == \E k \in 1..Len(r.val) : r.val[k] \in Repos \ KnownIds
\* The first entry of the list that is not a known id.
FirstOffender(r) ==
    LET k == CHOOSE k \in 1..Len(r.val) :
                 /\ r.val[k] \notin KnownIds
                 /\ \A j \in 1..(k - 1) : r.val[j] \in KnownIds
    IN r.val[k]

C12_TooManyRejectedAtLimitAccepted ==
    [][\A c \in Callers : Enters(c) => \A r \in ListInputs :
          Calls(c, r) =>
              /\ Len(r.val) > max_projects =>
                    /\ Rejected(c, {"too_many"})
                    /\ call'[c].validation.limit = max_projects
                    /\ call'[c].validation.requested = Len(r.val)
              /\ (Len(r.val) = max_projects /\ Range(r.val) \subseteq KnownIds) =>
                    /\ call'[c].pc = "loop"
                    /\ call'[c].outcome = "pending"
                    /\ call'[c].ids = r.val]_vars

\* A request of one entry more than the limit was rejected.
C12_Witness ==
    \E c \in Callers :
        /\ call[c].outcome = "raised"
        /\ call[c].validation.kind = "too_many"
        /\ call[c].validation.requested = max_projects + 1
        /\ call[c].validation.limit = max_projects

\* ------------------------------------------------------------ unique ids
\* The second segment of a unique id "model.<segment>.<rest>", and whether
\* the id has this shape.
SegmentEnd(u) ==
    CHOOSE k \in 7..Len(u) : u[k] = "." /\ \A j \in 7..(k - 1) : u[j] # "."
HasModelShape(u) ==
    /\ Len(u) >= 7
    /\ \A k \in 1..6 : u[k] = ModelDot[k]
    /\ \E k \in 7..Len(u) : u[k] = "."
Segment(u) == SubSeq(u, 7, SegmentEnd(u) - 1)
Dashed(seg) == [k \in DOMAIN seg |-> IF seg[k] = "_" THEN "-" ELSE seg[k]]
Underscored(seg) == [k \in DOMAIN seg |-> IF seg[k] = "-" THEN "_" ELSE seg[k]]
Spellings(u) == <<Segment(u), Dashed(Segment(u)), Underscored(Segment(u))>>

\* C13: a unique id model.<project>.<name> resolves to the first of the
\* literal second segment, the segment with underscores replaced by dashes
\* and the segment with dashes replaced by underscores that is a known
\* resource id; when none is known, or the id has fewer than three
\* segments or does not start with "model.", the resolution fails.
C13_FirstKnownSpellingResolved ==
    parse.pc = "done" =>
        LET u == parse.unique_id
            known == IF HasModelShape(u)
                     THEN {i \in 1..3 : Spellings(u)[i] \in KnownIds}
                     ELSE {}
        IN IF known = {} THEN parse.raised
           ELSE /\ ~parse.raised
                /\ parse.project_id =
                       Spellings(u)[CHOOSE i \in known : \A j \in known : i <= j]

\* "model._-.x" resolved to "--" in a registry that knows "--" and "__" but
\* not "_-".
C13_Witness ==
    /\ parse.pc = "done"
    /\ parse.unique_id = ModelDot \o <<"_", "-", ".", "x">>
    /\ KnownIds = {<<"-", "-">>, <<"_", "_">>}
    /\ parse.project_id = <<"-", "-">>
    /\ ~parse.raised

\* ------------------------------------------------------------- discovery
\* Vocabulary: the rows with a confirmed docs branch; a step of the
\* discovery run, and the step in which it returns.
DocsRows == {j \in 1..Len(csv) : csv[j].has_docs_branch = "True"}
RunSteps == disc.pc \in {"list", "probe"} /\ disc' # disc
RunReturns == RunSteps /\ disc'.pc = "done"
ResultIds == [k \in 1..Len(disc.result) |-> disc.result[k].resource_id]
CacheStatus(row) == <<row.cached_at, row.status, row.error>>

\* C14: list_project_ids returns exactly the resource ids of the rows whose
\* has_docs_branch is "True"; for a row with any other value
\* get_project_by_id fails and validation rejects the id as unknown.
C14_OnlyDocsBranchRowsVisible ==
    /\ Range(list_project_ids(Disk)) = {csv[j].resource_id : j \in DocsRows}
    /\ Len(list_project_ids(Disk)) = Cardinality(DocsRows)
    /\ \A j \in 1..Len(csv) :
          csv[j].has_docs_branch # "True" =>
              /\ ~get_project_by_id(Disk, csv[j].resource_id)
              /\ validate_resource_ids(
                     Disk, [kind |-> "list", val |-> <<csv[j].resource_id>>]).kind
                 = "unknown"

\* C15: no two rows of the store have the same resource_id.
C15_ResourceIdsUnique ==
    \A j, k \in 1..Len(csv) : csv[j].resource_id = csv[k].resource_id => j = k

\* C16: a discovery run returns and stores, for every resource id that had
\* a row before the run, the cached_at, status and error of that row, and
\* empty values for the others.
C16_CacheStatusPreserved ==
    [][RunReturns /\ ~disc'.failed =>
          \A k \in 1..Len(disc'.result) :
              LET project == disc'.result[k]
                  rows == {j \in 1..Len(csv) :
                              csv[j].resource_id = project.resource_id}
              IN /\ csv'[k] = project
                 /\ \A j \in rows : CacheStatus(project) = CacheStatus(csv[j])
                 /\ rows = {} => CacheStatus(project) = <<NoTime, "", "">>]_vars

\* C17: when the cache manager records the outcome of a fetch attempt for
\* x, one row of x changes in cached_at, status and error only; all its
\* other columns and all other rows stay, and so does list_project_ids.
C17_OnlyCacheStatusChanges ==
    [][\A c \in Callers :
          call[c].pc \in {"loop", "await"} /\ call'[c] # call[c] =>
              /\ Len(csv') = Len(csv)
              /\ list_project_ids(Disk)' = list_project_ids(Disk)
              /\ \A j \in 1..Len(csv) :
                    \/ csv'[j] = csv[j]
                    \/ /\ csv[j].resource_id = Current(c)
                       /\ \A k \in 1..Len(csv) : k # j => csv'[k] = csv[k]
                       /\ csv'[j] = [csv[j] EXCEPT
                                        !.cached_at = csv'[j].cached_at,
                                        !.status = csv'[j].status,
                                        !.error = csv'[j].error]]_vars

\* A refresh recorded "success" for b-models, whose row had none before;
\* the row kept its docs-branch flag.
C17_Witness ==
    /\ last["b-models"].op = "refresh"
    /\ last["b-models"].action = "refreshed"
    /\ \E j \in 1..Len(csv) :
          /\ csv[j].resource_id = "b-models"
          /\ csv[j].status = "success"
          /\ csv[j].has_docs_branch = "True"
          /\ csv[j].aliases = {"b-models", "b", "b_models"}

\* C18: after a discovery run returns the list L the store holds the rows
\* of L and no others, also when L is empty.
C18_StoreIsResult ==
    [][RunReturns => csv' = disc'.result]_vars

\* The response a probe ends with has status 200.
ProbeSucceeds(r) ==
    /\ ~r.exc
    /\ IF r.status = 403 /\ r.rate_limited
       THEN r.reset /\ ~r.retry_exc /\ r.retry_status = 200
       ELSE r.status = 200
\* The projects recorded so far by the run.
Recorded == IF disc.pc = "done" THEN disc.result ELSE disc.valid_projects
\* How many probes the run issued for a repository.
Probes(x) == Cardinality({k \in 1..Len(disc.probed) : disc.probed[k] = x})

\* C19: with skip_valid_cache and without force_refresh the candidates
\* whose cache is fresh are recorded with has_docs_branch "True" and are not
\* probed; every other candidate, and every candidate of any other run, is
\* probed once and recorded with the result of its probe.
C19_FreshSkippedOthersProbedOnce ==
    [][/\ (disc.pc = "list" /\ disc'.pc \in {"probe", "done"} /\ ~disc'.failed) =>
            LET optimise == disc.skip_valid_cache /\ ~disc.force_refresh
                skipped == disc'.repos_skipped_cache
                to_check == disc'.repos_to_check
            IN /\ \A x \in Range(skipped) : optimise /\ Fresh(x)
               /\ \A x \in Range(to_check) : ~(optimise /\ Fresh(x))
               /\ Len(Recorded') = Len(skipped)
               /\ \A k \in 1..Len(skipped) :
                     /\ Recorded'[k].resource_id = skipped[k]
                     /\ Recorded'[k].has_docs_branch = "True"
               /\ disc'.probed = <<>>
               /\ disc'.pc = "done" <=> to_check = <<>>
       /\ (disc.pc = "probe" /\ disc' # disc) =>
            LET repo == disc.repos_to_check[disc.i]
                k == Len(disc.repos_skipped_cache) + disc.i
            IN /\ disc'.probed = Append(disc.probed, repo)
               /\ disc'.repos_skipped_cache = disc.repos_skipped_cache
               /\ Len(Recorded') = k
               /\ Recorded'[k].resource_id = repo
               /\ \A j \in 1..(k - 1) :
                     Recorded'[j].has_docs_branch = disc.valid_projects[j].has_docs_branch
               /\ \A r \in ProbeResponses :
                     Probed(r) => Recorded'[k].has_docs_branch = Str(ProbeSucceeds(r))
               /\ disc'.pc = "done" <=> disc.i = Len(disc.repos_to_check)
       /\ (RunReturns /\ ~disc'.failed) =>
            \A x \in Range(ResultIds') :
                Probes(x)' = IF x \in Range(disc'.repos_skipped_cache) THEN 0 ELSE 1]_vars

\* A request of the probe raised an exception.
ProbeRaises(r) == r.exc \/ (r.status = 403 /\ r.rate_limited /\ r.reset /\ r.retry_exc)
\* The step is one in which an error occurs inside the run: the listing or
\* the probe raises, or the store cannot be read or written at the end.
ErrorOccurs ==
    \/ Listing("raise")
    \/ \E r \in ProbeResponses : ProbeRaises(r) /\ Probed(r)
    \/ RunReturns /\ ~disc'.failed /\ "read" \in faults
    \/ RunReturns /\ ~disc'.failed /\ "write" \in faults /\ disc'.result # <<>>

\* C20 as stated: discover does not raise, and a run in which an error
\* occurs returns the empty list.
C20_ErrorsYieldEmptyList ==
    [][RunSteps =>
          /\ disc'.pc \in {"list", "probe", "done"}
          /\ (RunReturns /\ ErrorOccurs) => disc'.result = <<>>]_vars

\* C20 amended: discover does not raise; it returns the empty list, and
\* leaves the store alone, when the listing raises; an exception in a probe
\* is recorded as no docs branch, and a store that cannot be read or
\* written does not shorten the list: every candidate is returned.
C20_NeverRaises ==
    [][RunSteps =>
          /\ disc'.pc \in {"list", "probe", "done"}
          /\ Listing("raise") =>
                disc'.pc = "done" /\ disc'.result = <<>> /\ csv' = csv
          /\ (RunReturns /\ disc'.failed) => disc'.result = <<>>
          /\ \A r \in ProbeResponses :
                (ProbeRaises(r) /\ Probed(r)) =>
                    /\ ~disc'.failed
                    /\ Recorded'[Len(Recorded')].has_docs_branch = "False"
          /\ (RunReturns /\ ~disc'.failed /\ disc.pc = "probe") =>
                Len(disc'.result)
                    = Len(disc.repos_skipped_cache) + Len(disc.repos_to_check)]_vars

\* A run returned both candidates over a store that can be neither read
\* nor written, the probe of the second having raised.
C20_Witness ==
    /\ disc.pc = "done"
    /\ ~disc.failed
    /\ faults = {"read", "write"}
    /\ ResultIds = <<"a-models", "b-models">>
    /\ disc.result[2].has_docs_branch = "False"
    /\ csv # disc.result

\* C21: a probe issues at most two requests; it waits and retries once,
\* and only after a rate-limit 403 with a known reset time; it yields true
\* only if the last response it received had status 200; an exception
\* yields false for the repository and the run goes on with the next one.
C21_ProbeAtMostTwoRequests ==
    [][(disc.pc = "probe" /\ <<probe, disc>>' # <<probe, disc>>) =>
          /\ probe'.requests <= 2
          /\ probe'.waits = probe'.requests - 1
          /\ probe'.pc = "wait" =>
                probe.pc = "idle" /\ probe'.requests = 1 /\ probe'.last = 403
          /\ probe.pc = "wait" => probe'.pc = "idle" /\ probe'.requests = 2
          /\ probe'.pc = "idle" =>
                LET entry == Recorded'[Len(Recorded')]
                    repo == disc.repos_to_check[disc.i]
                IN /\ disc'.probed = Append(disc.probed, repo)
                   /\ entry.resource_id = repo
                   /\ entry.has_docs_branch = "True" =>
                         probe'.last = 200 /\ ~probe'.raised
                   /\ (probe'.last = 200 /\ ~probe'.raised) =>
                         entry.has_docs_branch = "True"
                   /\ probe'.raised =>
                         /\ entry.has_docs_branch = "False"
                         /\ ~disc'.failed
                         /\ disc.i < Len(disc.repos_to_check) =>
                               disc'.pc = "probe" /\ disc'.i = disc.i + 1]_vars

\* The probe of a-models was rate limited, waited, retried and raised;
\* the run is about to probe b-models.
C21_Witness ==
    /\ probe.pc = "idle"
    /\ probe.requests = 2
    /\ probe.waits = 1
    /\ probe.raised
    /\ disc.pc = "probe"
    /\ disc.probed = <<"a-models">>
    /\ disc.repos_to_check[disc.i] = "b-models"
    /\ disc.valid_projects[1].has_docs_branch = "False"

\* C22: whenever the sidecar of x has status "success", manifest.json and
\* catalog.json of x both exist and come from the same caching operation.
\* A caching operation writes the two documents of one fetch, which are of
\* one version; two versions are the trace of two operations.
C22_SuccessMeansPairOfOneOperation ==
    \A x \in Repos :
        (metaFile[x].state = "ok" /\ metaFile[x].status = "success") =>
            /\ manifestFile[x] # Absent
            /\ catalogFile[x] # Absent
            /\ manifestFile[x] = catalogFile[x]

\* C23: a manifest.json and catalog.json that exist for x exist after every
\* step, of get_project_artifacts, of refresh_cache and of discovery.
PairExists(x) == manifestFile[x] # Absent /\ catalogFile[x] # Absent
C23_PairNeverDeleted ==
    [][\A x \in Repos : PairExists(x) => PairExists(x)']_vars

\* After a discovery run, a refresh of a-models failed: its files exist but
\* cannot be read, and the fetch timed out.  The files are still there.
C23_Witness ==
    /\ disc.pc = "done"
    /\ last["a-models"].action = "failed"
    /\ PairExists("a-models")
    /\ metaFile["a-models"].status = "error"

\* C24: when refresh_cache calls for a-models by two callers, which start on
\* an empty cache, have ended, manifest.json, catalog.json and the sidecar
\* of a-models are those of the call that wrote last: the pair and the
\* "success" it cached, or, when it failed, its "error" and no file of the
\* other call.
C24_LastWriterOwnsAllFiles ==
    (Quiet /\ started > 0) =>
        LET x == "a-models"
        IN /\ last[x].action = "refreshed" =>
                /\ <<manifestFile[x], catalogFile[x]>> = last[x].pair
                /\ metaFile[x].status = "success"
           /\ last[x].action = "failed" =>
                /\ metaFile[x].status = "error"
                /\ manifestFile[x] = Absent
                /\ catalogFile[x] = Absent

\* ---------------------------------------------- claims on the query layer
\* A get_models request that was answered with a model list.
GotModels ==
    /\ query.pc = "done" /\ query.op = "get_models"
    /\ IF query.service = "core" THEN query.response.success
       ELSE "error" \notin DOMAIN query.response
ModelList ==
    IF query.service = "core" THEN query.response.data
    ELSE query.response.models

\* The nodes of the loaded manifests, as (resource id, position).
Sources ==
    {s \in Repos \X (1..MaxNodes) :
        /\ ~query.artifacts[s[1]].raised
        /\ s[2] <= Len(query.artifacts[s[1]].manifest.nodes)}
NodeAt(s) == query.artifacts[s[1]].manifest.nodes[s[2]]

\* entry is what get_models shows of the node at s.
Shows(entry, s) ==
    /\ NodeAt(s).info.resource_type = "model"
    /\ entry.name = NodeAt(s).info.name
    /\ entry.schema = NodeAt(s).info.schema
    /\ entry.database = NodeAt(s).info.database
    /\ "unique_id" \in DOMAIN entry => entry.unique_id = NodeAt(s).unique_id
    /\ "resource_id" \in DOMAIN entry => entry.resource_id = s[1]

\* from[k] is the node that entry k of the list shows, no node being shown
\* twice.
Origins ==
    {from \in [1..Len(ModelList) -> Sources] :
        /\ \A k \in 1..Len(ModelList) : Shows(ModelList[k], from[k])
        /\ \A j, k \in 1..Len(ModelList) : j # k => from[j] # from[k]}
OriginKey(from, k) ==
    <<Chars(from[k][1]), ModelList[k].schema, ModelList[k].name>>

\* C25: the models get_models returns are in ascending order of (resource
\* id, schema, name), the resource id of an entry being that of the resource
\* whose manifest holds the model, whether show_details is set or not.
C25_ModelsInResourceSchemaNameOrder ==
    GotModels =>
        \E from \in Origins :
            \A j, k \in 1..Len(ModelList) :
                j < k => ~TupleLess(OriginKey(from, k), OriginKey(from, j))

\* The resources the answered request searched, in ascending order of their
\* ids, and what the filter of the service keeps of each.
Searched ==
    LET requested == IF query.request.resource_id # <<>>
                     THEN query.request.resource_id
                     ELSE list_project_ids(Disk)
        loaded == SelectSeq(requested, LAMBDA x : ~query.artifacts[x].raised)
    IN Sorted(loaded, {p \in Range(loaded) \X Range(loaded) :
                          StrLess(Chars(p[1]), Chars(p[2]))})
MatchesOf(x) ==
    IF query.service = "core"
    THEN core_filter_models_by_criteria(query.artifacts[x].manifest.nodes,
             query.request.schema, query.request.level, x,
             query.request.show_details)
    ELSE api_filter_models_by_criteria(query.artifacts[x].manifest.nodes,
             query.request.schema, query.request.level, x)

\* The matches of the request in ascending order of (resource id, schema,
\* name).
SortedMatches == Concat([k \in 1..Len(Searched) |-> MatchesOf(Searched[k])])

\* C26: get_models with limit n returns min(total, n) models, the first n of
\* the whole list of matches sorted by (resource id, schema, name), and
\* reports truncated exactly when the total exceeds n.
C26_LimitKeepsFirstOfSortedMatches ==
    GotModels =>
        /\ Len(ModelList) = Min(Len(SortedMatches), query.request.limit)
        /\ ModelList = SubSeq(SortedMatches, 1, Len(ModelList))
        /\ query.response.truncated
               <=> Len(SortedMatches) > query.request.limit

\* The model nodes of resource x whose schema is s, whatever the case of the
\* letters.
InSchema(x, s) ==
    {src \in Sources :
        /\ src[1] = x
        /\ NodeAt(src).info.resource_type = "model"
        /\ Lower(NodeAt(src).info.schema) = Lower(s)}

\* C27: get_models(schema=s, resource_id=r) returns the model nodes of r
\* whose schema is s case-insensitively and nothing else: every entry shows
\* such a node, and when these nodes are no more than the limit every one of
\* them is shown and truncated is False.
C27_SchemaFilterExactCaseInsensitive ==
    (/\ GotModels
     /\ query.request.schema # <<>>
     /\ Len(query.request.resource_id) = 1) =>
        LET expected == InSchema(query.request.resource_id[1],
                                 query.request.schema)
        IN \E from \in Origins :
               /\ \A k \in 1..Len(ModelList) : from[k] \in expected
               /\ Cardinality(expected) <= query.request.limit =>
                     /\ expected = {from[k] : k \in 1..Len(ModelList)}
                     /\ ~query.response.truncated

\* A lookup by FQN that was answered, and the candidates it had: the models
\* matching the FQN in the resources loaded for it, in the order in which
\* the search meets them (none when the FQN has not two or three parts).
FqnAnswered ==
    /\ query.pc = "done" /\ query.op = "get_model_by_id"
    /\ query.request.fqn # <<>>
Candidates ==
    IF Len(Split(query.request.fqn, ".")) \notin {2, 3} THEN <<>>
    ELSE fqn_matching_models(query.artifacts,
             load_artifacts(Disk, query.artifacts,
                            query.request.resource_id).ids,
             query.request.fqn)
Named(k, name) ==
    /\ Candidates[k].node_data.name = name
    /\ Candidates[k].node_data.schema = <<"c", "o", "r", "e">>

Detailed ==
    /\ query.pc = "done"
    /\ query.op \in {"get_model_by_id", "get_model_details"}
    /\ IF query.service = "core" THEN query.response.success
       ELSE "columns" \in DOMAIN query.response
Detail ==
    IF query.service = "core" THEN query.response.data ELSE query.response

\* The columns the manifest and the catalog of its resource have for the
\* node at s.
ManifestColumns(s) == NodeAt(s).info.columns
CatalogColumns(s) ==
    LET nodes == query.artifacts[s[1]].catalog.nodes
    IN IF NodeAt(s).unique_id \in DOMAIN nodes
       THEN nodes[NodeAt(s).unique_id].columns ELSE <<>>

\* C29: the columns of a model detail are named by the union of the manifest
\* and the catalog column names of the model; a column of both has the
\* description of the manifest and the type of the catalog, a column of the
\* catalog alone an empty description and the type of the catalog, a column
\* of the manifest alone its description.
C29_ColumnsMergeManifestAndCatalog ==
    Detailed =>
        \E s \in Sources :
            LET mc == ManifestColumns(s)
                cc == CatalogColumns(s)
                columns == Detail.columns
            IN /\ Shows(Detail, s)
               /\ DOMAIN columns = DOMAIN mc \cup DOMAIN cc
               /\ \A c \in DOMAIN mc \cap DOMAIN cc :
                      /\ columns[c].description = mc[c].description
                      /\ columns[c].type = cc[c].type
               /\ \A c \in DOMAIN cc \ DOMAIN mc :
                      /\ columns[c].description = ""
                      /\ columns[c].type = cc[c].type
               /\ \A c \in DOMAIN mc \ DOMAIN cc :
                      columns[c].description = mc[c].description

\* A detail with a column of each kind: "a" of both, "b" of the manifest
\* alone, "c" of the catalog alone.
C29_Witness ==
    /\ Detailed
    /\ DOMAIN Detail.columns = {"a", "b", "c"}
    /\ Detail.columns["a"].description = "about a"
    /\ Detail.columns["a"].type = "NUMBER"
    /\ Detail.columns["b"].description = "about b"
    /\ Detail.columns["c"].description = ""
    /\ Detail.columns["c"].type = "VARCHAR"

\* A lookup by model name that was answered, and the model nodes of that
\* name in the resources it searched (none when the search raised).
NameAnswered ==
    /\ query.pc = "done"
    /\ query.op \in {"get_model_by_id", "get_model_details"}
    /\ query.request.model_name # <<>> /\ query.request.fqn = <<>>
NameSearch ==
    find_model_in_projects(Disk, query.artifacts, query.request.model_name,
                           query.request.resource_id)
NameMatches ==
    LET asked == IF query.request.resource_id = <<>>
                 THEN list_project_ids(Disk)
                 ELSE query.request.resource_id
    IN {s \in Sources :
           /\ ~NameSearch.raised
           /\ s[1] \in Range(asked)
           /\ NodeAt(s).info.resource_type = "model"
           /\ NodeAt(s).info.name = query.request.model_name}
Summary(s) ==
    [resource_id |-> s[1], unique_id |-> NodeAt(s).unique_id,
     schema |-> NodeAt(s).info.schema, database |-> NodeAt(s).info.database]

\* The list of summaries in the answer, if it has one.
HasMatchList ==
    IF query.service = "core" THEN "multiple_matches" \in DOMAIN query.response
    ELSE "matches" \in DOMAIN query.response
MatchList ==
    IF query.service = "core" THEN query.response.multiple_matches
    ELSE query.response.matches

\* C30: a lookup by model name that matches several model nodes in the
\* resources searched returns one summary (resource id, unique id, schema,
\* database) per matching node and no model detail; a model detail is
\* returned only when exactly one node matches, and then it is that node's.
C30_SeveralNameMatchesYieldSummaries ==
    NameAnswered =>
        /\ Cardinality(NameMatches) > 1 =>
              /\ HasMatchList
              /\ ~Detailed
              /\ Len(MatchList) = Cardinality(NameMatches)
              /\ Range(MatchList) = {Summary(s) : s \in NameMatches}
        /\ Detailed =>
              /\ ~HasMatchList
              /\ \E s \in NameMatches :
                     NameMatches = {s} /\ Shows(Detail, s)
        /\ Cardinality(NameMatches) = 1 => Detailed

\* fact_tx is a model of a-models and of b-models; the lookup returned the
\* two summaries.
C30_Witness ==
    /\ NameAnswered
    /\ HasMatchList
    /\ Len(MatchList) = 2
    /\ MatchList[1].resource_id # MatchList[2].resource_id
    /\ Cardinality(NameMatches) = 2

\* The last part of the FQN asked for, lower-cased, and what the schema and
\* the database of candidate k add to its score.
TargetTable ==
    LET target_parts == Split(Lower(query.request.fqn), ".")
    IN target_parts[Len(target_parts)]
SchemaPoints(k) ==
    LET target_parts == Split(Lower(query.request.fqn), ".")
    IN IF Lower(Candidates[k].node_data.schema)
              = target_parts[Len(target_parts) - 1]
       THEN 10 ELSE 0
DatabasePoints(k) ==
    LET target_parts == Split(Lower(query.request.fqn), ".")
        database == Lower(Candidates[k].node_data.database)
    IN IF Len(target_parts) # 3 THEN 0
       ELSE IF database = target_parts[1] THEN 5
       ELSE IF Contains(target_parts[1], database) THEN 2
       ELSE 0
HasDbtSuffix(k) ==
    /\ Lower(Candidates[k].node_data.name) # TargetTable
    /\ EndsWith(Lower(Candidates[k].node_data.name),
                <<"_", "_">> \o TargetTable)

\* C35: a candidate of an FQN lookup whose name is not the table asked for
\* but ends with "__<table>" has 8 points for its name in its score, beside
\* the points of its schema and its database.
C35_DbtSuffixScoresEight ==
    FqnAnswered =>
        \A k \in 1..Len(Candidates) :
            HasDbtSuffix(k) =>
                Candidates[k].match_score
                    = SchemaPoints(k) + 8 + DatabasePoints(k)

\* A get_models request that reached the loading of artifacts: its arguments
\* were accepted and, without resource_id, the registry is within the limit
\* of the MCP service.  The resources it asks for, those of them whose
\* artifacts load and those whose artifacts do not, in the order asked.
LoadsResources ==
    /\ query.pc = "done" /\ query.op = "get_models"
    /\ IF query.service = "core"
       THEN /\ ~(query.request.schema = <<>> /\ query.request.level = <<>>
                 /\ query.request.resource_id = <<>>)
            /\ query.request.level \in {<<>>, <<"b", "r", "o", "n", "z", "e">>,
                                        <<"s", "i", "l", "v", "e", "r">>,
                                        <<"g", "o", "l", "d">>}
       ELSE query.request.resource_id = <<>>
                => Len(list_project_ids(Disk)) <= max_projects
Requested ==
    IF query.request.resource_id # <<>> THEN query.request.resource_id
    ELSE list_project_ids(Disk)
LoadedOnes == SelectSeq(Requested, LAMBDA x : ~query.artifacts[x].raised)
FailedOnes == SelectSeq(Requested, LAMBDA x : query.artifacts[x].raised)
Failure ==
    IF query.service = "core" THEN ~query.response.success
    ELSE "error" \in DOMAIN query.response
FailedList ==
    IF query.service = "core" THEN query.response.failed_resources
    ELSE query.response.failed_projects

\* C32: a get_models call reports failure exactly when none of the resources
\* it asks for loads.  Otherwise the resources that did not load are its
\* failed resources, every model returned is a model of a resource that
\* loaded, and, unless the list is truncated, every model of the loaded
\* resources that passes the filter is returned.
C32_LoadFailuresIsolated ==
    LoadsResources =>
        /\ Failure <=> LoadedOnes = <<>>
        /\ ~Failure =>
              /\ FailedList = FailedOnes
              /\ \E from \in Origins :
                    \A k \in 1..Len(ModelList) : from[k][1] \in Range(LoadedOnes)
              /\ ~query.response.truncated =>
                    Len(ModelList) = Len(SortedMatches)

\* b-models and a-models were asked for; b-models did not load and the
\* models of a-models were returned.
C32_Witness ==
    /\ LoadsResources
    /\ query.request.resource_id = <<"b-models", "a-models">>
    /\ ~Failure
    /\ FailedList = <<"b-models">>
    /\ ModelList # <<>>
    /\ ~query.response.truncated

\* A get_description request that was answered, the scope it gave and the
\* doc blocks it returned (none with an error).
DescriptionAnswered == query.pc = "done" /\ query.op = "get_description"
Scope == query.request.resource_id
NoScope ==
    \/ Scope.kind = "none"
    \/ Scope.val = <<>>
    \/ Scope.kind = "str" /\ Scope.val = <<"">>
DescriptionFailed ==
    IF query.service = "core"
    THEN ~query.response.success /\ query.response.data = <<>>
    ELSE "error" \in DOMAIN query.response
         /\ "matches" \notin DOMAIN query.response
Returned_docs ==
    IF query.service = "core" THEN query.response.data
    ELSE IF "matches" \in DOMAIN query.response THEN query.response.matches
    ELSE <<>>

\* The doc blocks named doc_name in the manifests of the resources of the
\* scope, as (resource id, position in the docs of its manifest).
ScopeBlocks ==
    {b \in (Range(Scope.val) \cap Repos) \X (1..MaxNodes) :
        /\ ~query.artifacts[b[1]].raised
        /\ b[2] <= Len(query.artifacts[b[1]].manifest.docs)
        /\ LET doc == query.artifacts[b[1]].manifest.docs[b[2]]
           IN /\ doc.info.resource_type = "doc"
              /\ doc.info.name = query.request.doc_name}
BlockAt(b) == query.artifacts[b[1]].manifest.docs[b[2]]

\* C31: get_description without a resource_id (None, an empty string or an
\* empty list) returns an error and has no artifacts loaded.  With a scope
\* the cache manager accepts it returns the doc blocks of the resources of
\* the scope whose resource_type is "doc" and whose name is doc_name, each
\* once with its contents, and no other block; it returns an error when
\* there is none.
C31_DescriptionNeedsScope ==
    DescriptionAnswered =>
        /\ NoScope => DescriptionFailed /\ query.loads = <<>>
        /\ Range(query.loads) \subseteq Range(Scope.val)
        /\ (~NoScope /\ validate_resource_ids(Disk, Scope).ok) =>
              /\ Len(Returned_docs) = Cardinality(ScopeBlocks)
              /\ \A b \in ScopeBlocks : \E k \in 1..Len(Returned_docs) :
                    /\ Returned_docs[k].project_id = b[1]
                    /\ Returned_docs[k].doc_id = BlockAt(b).doc_id
                    /\ Returned_docs[k].content = BlockAt(b).info.block_contents
              /\ DescriptionFailed <=> ScopeBlocks = {}
        /\ \A k \in 1..Len(Returned_docs) :
              Returned_docs[k].project_id \in Range(Scope.val)

\* b-models and a-models were the scope; each has a doc block tx_hash, and
\* a-models has a block of another name that was not returned.
C31_Witness ==
    /\ DescriptionAnswered
    /\ Scope.val = <<"b-models", "a-models">>
    /\ ~DescriptionFailed
    /\ Len(Returned_docs) = 2
    /\ Returned_docs[1].project_id = "b-models"
    /\ Returned_docs[2].project_id = "a-models"
    /\ Len(query.artifacts["a-models"].manifest.docs) = 2

\* A get_resources request that was answered; the resources the registry
\* listed and had a record for; whether a resource satisfies the filters of
\* the request, a filter that is not given being satisfied by all.
ResourcesAnswered == query.pc = "done" /\ query.op = "get_resources"
LoadedResources ==
    {id \in Range(query.registry.ids) : id \notin query.registry.failing}
HasBlockchain(id, filter) ==
    LET r == CHOOSE x \in ResourcePool : x.id = id
    IN \/ Contains(Lower(filter), Lower(r.blockchain))
       \/ \E k \in 1..Len(r.aliases) : Contains(Lower(filter), Lower(r.aliases[k]))
HasCategory(id, filter) ==
    LET r == CHOOSE x \in ResourcePool : x.id = id
    IN Contains(Lower(filter), Lower(r.category))
Satisfying ==
    {id \in LoadedResources :
        /\ query.request.blockchain_filter # <<>>
              => HasBlockchain(id, query.request.blockchain_filter)
        /\ query.request.category_filter # <<>>
              => HasCategory(id, query.request.category_filter)}

\* C33: get_resources returns, each once, the resources the registry has a
\* record for that satisfy every filter given: the blockchain filter by
\* being contained, whatever the case, in the blockchain or in an alias, the
\* category filter by being contained in the category.  When the registry
\* lists no id or raises, the result is the failure value: success False and
\* no data.
C33_ResourcesFiltered ==
    ResourcesAnswered =>
        /\ (query.registry.raised \/ query.registry.ids = <<>>) =>
              ~query.response.success /\ query.response.data = <<>>
        /\ LoadedResources # {} =>
              /\ query.response.success
              /\ {query.response.data[k].id : k \in 1..Len(query.response.data)}
                     = Satisfying
              /\ Len(query.response.data) = Cardinality(Satisfying)

\* Two resources were listed; both satisfy the blockchain filter, one of
\* them the category filter, and it alone was returned.
C33_Witness ==
    /\ ResourcesAnswered
    /\ query.request.blockchain_filter = <<"E", "T", "H">>
    /\ query.request.category_filter = <<"l", "1">>
    /\ Cardinality(LoadedResources) = 2
    /\ \A id \in LoadedResources : HasBlockchain(id, <<"E", "T", "H">>)
    /\ query.response.success
    /\ Len(query.response.data) = 1
    /\ query.response.data[1].id = "proj1"

\* ------------------------------------------------------------ request size
\* The resources a call has gone through so far: its loop handles call[c].ids
\* in order and is at position call[c].i.
Processed(c) == call[c].i - 1
Accepted(c) == call[c].pc # "idle" /\ call[c].validation.ok
\* The call was made with None or an empty list.
Unscoped(c) == call[c].validation.requested = 0

\* C37 as stated: every call of get_project_artifacts or refresh_cache
\* processes at most MAX_PROJECTS resources, also when its input is None or
\* an empty list and is expanded to all known resource ids.
C37_AtMostMaxProjects ==
    \A c \in Callers : Accepted(c) => Processed(c) <= max_projects

\* C37 amended: a call given a single id or a non-empty list processes the
\* ids it was given, at most MAX_PROJECTS of them; a call given None or an
\* empty list processes the known resource ids, all of them once it returns,
\* however many they are.
C37_LimitOnGivenListOnly ==
    \A c \in Callers : Accepted(c) =>
        /\ Processed(c) <= Len(call[c].ids)
        /\ call[c].pc = "done" => Processed(c) = Len(call[c].ids)
        /\ IF Unscoped(c)
           THEN call[c].ids = list_project_ids(Disk)
           ELSE /\ Len(call[c].ids) = call[c].validation.requested
                /\ Len(call[c].ids) <= max_projects

\* A call made without ids has returned after going through two resources,
\* one more than the limit.
C37_Witness ==
    \E c \in Callers :
        /\ call[c].pc = "done"
        /\ Accepted(c)
        /\ Unscoped(c)
        /\ Processed(c) = max_projects + 1

\* ------------------------------------------------- refresh after a failure
\* The last iteration that went past the cache of x was one of refresh_cache
\* and reported "failed".
FailedBefore(x) == last[x].op = "refresh" /\ last[x].action = "failed"
\* Caller c takes the step of its unforced refresh_cache that handles x.
RefreshesUnforced(c, x) ==
    /\ InLoop(c, "refresh")
    /\ ~call[c].force
    /\ Current(c) = x
    /\ call'[c] # call[c]

\* C38: after refresh_cache reported "failed" for x, the next unforced
\* refresh_cache that includes x does not report "skipped" for x but goes on
\* to fetch x again, also when the failed call found x's cache fresh and the
\* time to live has not elapsed since.
C38_FailedIsRetried ==
    [][\A c \in Callers : \A x \in Repos :
          FailedBefore(x) /\ RefreshesUnforced(c, x) =>
              /\ call'[c].pc = "await"
              /\ x \notin DOMAIN call'[c].refresh_results
              /\ ~last'[x].skipped]_vars

\* An unforced refresh_cache is fetching a-models at time 0, after a forced
\* one failed on it at time 0, when its sidecar was fresh.
C38_Witness ==
    \E c \in Callers :
        /\ call[c].pc = "await"
        /\ call[c].op = "refresh"
        /\ ~call[c].force
        /\ Current(c) = "a-models"
        /\ FailedBefore("a-models")
        /\ last["a-models"].force
        /\ last["a-models"].at = 0
        /\ now = 0

\* ------------------------------------------------------------- the listing
\* The listing goes on with the request for page p and the repositories r.
ListingGoesOn(p, r) ==
    /\ disc'.pc = "list"
    /\ disc'.page = p
    /\ disc'.repos = r
    /\ csv' = csv
ListingOver == disc'.pc # "list"
Running == disc.pc \in {"list", "probe"}
RateLimits == {"rate_limited_reset", "rate_limited"}

\* C34 as stated, its part on retries: a rate-limited request of the
\* listing is retried for the same page, the page number not advanced and
\* no repository appended.
C34_RateLimitedIsRetried ==
    [][\A outcome \in RateLimits :
          Listing(outcome) => ListingGoesOn(disc.page, disc.repos)]_vars

\* C34 amended: the listing stops at the first empty page, at a page shorter
\* than the page size (whose repositories it keeps), at a non-200 response
\* that is not a rate limit and at a rate-limited response when no reset
\* time is known; after a full page it asks for the next page; a
\* rate-limited request with a known reset time is retried for the same
\* page, no repository appended; and, the rate-limit responses being
\* finitely many, a run that has started returns.
C34_ListingTerminates ==
    /\ [][/\ Listing("rate_limited_reset") =>
                ListingGoesOn(disc.page, disc.repos)
          /\ (Listing("rate_limited") \/ Listing("status")) => ListingOver
          /\ Listing("page") =>
                IF Len(PageOf(org, disc.page)) < per_page
                THEN ListingOver
                ELSE ListingGoesOn(disc.page + 1,
                                   disc.repos \o PageOf(org, disc.page))]_vars
    /\ (Running ~> disc.pc = "done")

\* The listing is about to ask for its second page again, after a
\* rate-limit wait on that page: it holds the repositories of the first
\* page only.
C34_Witness ==
    /\ disc.pc = "list"
    /\ disc.page = 2
    /\ disc.waits = 1
    /\ disc.repos = PageOf(org, 1)

\* ------------------------------------------------- a run for some projects
\* The step on which a discovery run limited to specific projects returns.
LimitedRunReturns ==
    /\ disc.pc \in {"list", "probe"}
    /\ disc'.pc = "done"
    /\ disc.specific_projects # <<>>
RowsOutside(S) == {j \in 1..Len(csv) : csv[j].resource_id \notin S}

\* C36: a discovery run with specific_projects = S leaves every row of the
\* store whose resource_id is not in S as it was, so that every id
\* list_project_ids gave before the run and that is not in S is given after
\* it too.  (Nothing else writes the store while the run goes on, so the
\* store before the run is the store before its last step.)
C36_OtherRowsUnchanged ==
    [][LimitedRunReturns =>
          LET S == Range(disc.specific_projects)
          IN /\ \A j \in RowsOutside(S) :
                    \E k \in 1..Len(csv') : csv'[k] = csv[j]
             /\ Range(list_project_ids(Disk)) \ S
                    \subseteq Range(list_project_ids([Disk EXCEPT !.csv = csv']))]_vars

\* ------------------------------------------- a refresh during a discovery
\* The refresh_cache started while the present run was suspended has
\* recorded an outcome for x, and what it recorded in the store: the time,
\* the status and the error.
RecordedInRun(c, x) ==
    /\ started = disc.runs
    /\ call[c].op = "refresh"
    /\ x \in DOMAIN call[c].refresh_results
    /\ call[c].refresh_results[x].action \in {"refreshed", "failed"}
RecordedStatus(c, x) ==
    LET result == call[c].refresh_results[x]
    IN <<last[x].at,
         IF result.success THEN "success" ELSE "error",
         IF result.error = NoError THEN "" ELSE result.error>>

\* C39: when a refresh_cache has recorded a cache status for x while a
\* discovery run was suspended in its listing or its probes, and the run
\* returns x, the cached_at, status and error recorded are in the store
\* after the run has written its result.
C39_StatusOfRefreshKept ==
    [][RunReturns /\ ~disc'.failed =>
          \A c \in Sequential : \A k \in 1..Len(disc'.result) :
              LET x == disc'.result[k].resource_id
              IN RecordedInRun(c, x) =>
                     \E j \in 1..Len(csv') :
                         /\ csv'[j].resource_id = x
                         /\ CacheStatus(csv'[j]) = RecordedStatus(c, x)]_vars

====
